---------------------------- MODULE Spec2Model ----------------------------
(***************************************************************************)
(* Model of the coordination primitives of redisify: RedisLock,            *)
(* RedisRWLock, RedisSemaphore and RedisLimiter                            *)
(* (src/redisify/distributed/*.py).                                        *)
(*                                                                         *)
(* The shared state is the set of Redis keys the primitives use.  Every    *)
(* handle is driven by one caller (a coroutine); its position is a pc      *)
(* value.  One step of a handle is one round trip to the store (a single   *)
(* command, a Lua script or a MULTI/EXEC pipeline, each executed           *)
(* atomically by Redis) together with the local code that follows it up    *)
(* to the next await.  asyncio.sleep is a step of its own.                 *)
(***************************************************************************)
EXTENDS Integers, Sequences, FiniteSets, TLC

(* ------------------------------ bounds -------------------------------- *)
NumLockHandles == 3   \* RedisLock handles created on one lock name
MaxRounds == 2        \* acquire() calls one caller makes on its handle
NumRWHandles == 2     \* RedisRWLock handles created on one lock name
MaxReadAcq == 2       \* successful acquire_read() calls per handle
MaxWriteCalls == 2    \* acquire_write() calls made on one lock name
NumSemHandles == 3    \* RedisSemaphore handles created on one name
SemLimit == 2         \* the limit every semaphore handle is configured with
MaxTime == 2          \* largest value of time.time() the semaphore sees
MaxSemCalls == 4      \* acquire() calls made on one semaphore name
NumLimCallers == 2    \* callers, each with a RedisLimiter handle of one name
TicksPerSecond == 2   \* clock ticks in one second
TimePeriod == 3       \* time_period of the limiter, in ticks (1.5 s)
RateLimit == 2        \* rate_limit of the limiter
LimSleep == 1         \* sleep of the limiter, in ticks (0.5 s)
MaxCalls == 2         \* acquire() and `async with` calls one caller makes
CountCap == 4         \* counter values from here on are not told apart
AgeCap == 5           \* window ages from here on are not told apart

Nil == 0              \* a key that does not exist (GET returns nil)

LockHandles == 1..NumLockHandles
RWHandles == 1..NumRWHandles
SemHandles == 1..NumSemHandles
LimCallers == 1..NumLimCallers

\* self.token = str(uuid.uuid4()): one value per handle, distinct from the
\* tokens of all other handles and never nil.
Token(h) == h

VARIABLES
    lockKey,   \* value of redisify:lock:<name>, Nil when the key is absent
    lpc,       \* lpc[h]: where the caller of lock handle h is
    lheld,     \* lheld[h]: h returned from acquire() and has not released since
    lrounds,   \* lrounds[h]: acquire() calls made through h
    lrelRet    \* lrelRet[h]: what h's last release script returned (-1: none)

VARIABLES
    writeKey,    \* value of redisify:rwlock:<name>:write, Nil when absent
    readersKey,  \* redisify:rwlock:<name>:readers: <<>> when absent, else <<n>>
    rwpc,        \* rwpc[h]: where the caller of reader/writer handle h is
    is_reader,   \* is_reader[h]: self._is_reader
    is_writer,   \* is_writer[h]: self._is_writer
    rdAcq,       \* rdAcq[h]: acquire_read() calls of h that returned True
    rdRel,       \* rdRel[h]: release_read() calls of h that decremented
    wrCalls,     \* acquire_write() calls made so far, over all handles
    wrelRet      \* what the last release_write script returned (-1: none)

VARIABLES
    permits,   \* the list redisify:semaphore:<name>, head first
    spc,       \* spc[h]: where the caller of semaphore handle h is
    sclock,    \* time.time()
    sheld,     \* sheld[h]: permits h acquired and has not released
    scalls,    \* acquire() calls made so far, over all handles
    sval,      \* what the last value() returned (-1: none)
    scan       \* what the last can_acquire() returned: 1 True, 0 False
               \* (-1: none)

VARIABLES
    limLockKey,  \* value of redisify:lock:redisify:limiter:<name>, or Nil
    ctr,         \* value of redisify:limiter:<name>, 0 when the key is absent
    ctrTTL,      \* ticks until the counter key expires (-1: no expiry set)
    cpc,         \* cpc[c]: where caller c is
    cscoped,     \* cscoped[c]: c is in __aenter__ (async with limiter)
    callowed,    \* callowed[c]: what c's last acquire() computed (-1: none)
    ctimer,      \* ctimer[c]: ticks left of c's asyncio.sleep(self.sleep)
    ccalls,      \* ccalls[c]: acquire() and `async with` calls c has made
    winIncr,     \* increments made since the counter key was created
    winAllowed,  \* how many of them were answered True
    winAge       \* ticks since the counter key was created

VARIABLES
    cm,    \* the primitive the `async with` statements of a run are made on
    body,  \* body[h]: where the task using handle h is with respect to its
           \* `async with`: "out", "in", or left by path "ok" or "exc"
    entry  \* entry[h]: the expression of the last `async with` made on the
           \* reader/writer handle h ("none" before the first)

VARIABLES
    impl,    \* the module the container class comes from: "structures"
             \* (redisify.structures, with a Serializer) or "legacy"
             \* (redisify.queue / redisify.dict, raw strings)
    qlist,   \* RedisQueue: the store's list, oldest element first
    qhist,   \* ghost: the items given to put(), in call order
    qtaken,  \* ghost: how many get() calls returned an item
    qop,     \* the last queue operation that returned
    qret,    \* what the last get()/peek() returned: <<>> is None
    qsize    \* what the last size() returned (-1: none yet)

VARIABLES
    dhash,   \* RedisDict: the hash field of the one key: <<>> is absent
    dpc,     \* dpc[c]: position of caller c inside setdefault()
    ddef,    \* ddef[c]: the default c passed to its last setdefault()
    dret,    \* dret[c]: what c's last setdefault() returned (<<>>: none yet)
    dcalls,  \* ghost: setdefault() calls made
    dwrites  \* ghost: __setitem__ / __delitem__ calls made

VARIABLES
    llist,   \* RedisList: the store's list, index 0 first
    ipc,     \* ipc[c]: position of client c inside insert()
    ireq,    \* ireq[c]: the normalised index and the value of c's insert()
    inew,    \* inew[c]: the list c's insert() rebuilt, serialized, to write
    lops     \* ghost: append / pop / insert calls made

lockVars == <<lockKey, lpc, lheld, lrounds, lrelRet>>

rwVars == <<writeKey, readersKey, rwpc, is_reader, is_writer, rdAcq, rdRel,
            wrCalls, wrelRet>>

semVars == <<permits, spc, sclock, sheld, scalls, sval, scan>>

limVars == <<limLockKey, ctr, ctrTTL, cpc, cscoped, callowed, ctimer, ccalls,
             winIncr, winAllowed, winAge>>

ctxVars == <<cm, body, entry>>

queueVars == <<qlist, qhist, qtaken, qop, qret, qsize>>

dictVars == <<dhash, dpc, ddef, dret, dcalls, dwrites>>

listVars == <<llist, ipc, ireq, inew, lops>>

dsVars == <<impl, queueVars, dictVars, listVars>>

vars == <<lockVars, rwVars, semVars, limVars, ctxVars, dsVars>>

\* What the operations of one primitive leave alone: the other primitives.
LockFrame == UNCHANGED <<rwVars, semVars, limVars, ctxVars, dsVars>>

RWFrame == UNCHANGED <<lockVars, semVars, limVars, ctxVars, dsVars>>

SemFrame == UNCHANGED <<lockVars, rwVars, limVars, ctxVars, dsVars>>

LimFrame == UNCHANGED <<lockVars, rwVars, semVars, ctxVars, dsVars>>

(* --------------------------- store commands --------------------------- *)
\* SET key value NX, as a function of the key's value before the command.
SetNX_Overwrite(key, value) == [ok |-> TRUE, key |-> value]

SetNX_Reentrant(key, value) ==
    IF key = Nil \/ key = value THEN [ok |-> TRUE, key |-> value]
                                ELSE [ok |-> FALSE, key |-> key]

SetNX(key, value) ==
    IF key = Nil THEN [ok |-> TRUE, key |-> value]
                 ELSE [ok |-> FALSE, key |-> key]

\* The release script: if GET KEYS[1] == ARGV[1] then DEL KEYS[1] else 0.
LuaRelease_Unchecked(key, token) ==
    IF key # Nil THEN [ret |-> 1, key |-> Nil] ELSE [ret |-> 0, key |-> key]

LuaRelease_NoDelete(key, token) == [ret |-> 0, key |-> key]

LuaRelease(key, token) ==
    IF key = token THEN [ret |-> 1, key |-> Nil]
                   ELSE [ret |-> 0, key |-> key]

(* ------------------------------ RedisLock ----------------------------- *)
InitLock ==
    /\ lockKey = Nil
    /\ lpc = [h \in LockHandles |-> "idle"]
    /\ lheld = [h \in LockHandles |-> FALSE]
    /\ lrounds = [h \in LockHandles |-> 0]
    /\ lrelRet = [h \in LockHandles |-> -1]

\* A caller calls acquire() on its handle (whether or not it holds the lock).
LockAcquireCall(h) ==
    /\ lpc[h] = "idle"
    /\ lrounds[h] < MaxRounds
    /\ lpc' = [lpc EXCEPT ![h] = "acquiring"]
    /\ lrounds' = [lrounds EXCEPT ![h] = @ + 1]
    /\ UNCHANGED <<lockKey, lheld, lrelRet>>
    /\ LockFrame

\* One iteration of the loop of acquire(): SET NX, return True or go to sleep.
LockAcquireTry_IgnoreOk(h) ==
    /\ lpc[h] = "acquiring"
    /\ lockKey' = SetNX(lockKey, Token(h)).key
    /\ lpc' = [lpc EXCEPT ![h] = "idle"]
    /\ lheld' = [lheld EXCEPT ![h] = TRUE]
    /\ UNCHANGED <<lrounds, lrelRet>>
    /\ LockFrame

LockAcquireTry(h) ==
    /\ lpc[h] = "acquiring"
    /\ LET r == SetNX(lockKey, Token(h)) IN
         /\ lockKey' = r.key
         /\ IF r.ok
              THEN /\ lpc' = [lpc EXCEPT ![h] = "idle"]
                   /\ lheld' = [lheld EXCEPT ![h] = TRUE]
              ELSE /\ lpc' = [lpc EXCEPT ![h] = "sleeping"]
                   /\ UNCHANGED lheld
    /\ UNCHANGED <<lrounds, lrelRet>>
    /\ LockFrame

\* asyncio.sleep(self.sleep) is over; the loop tries again.
LockAcquireWake(h) ==
    /\ lpc[h] = "sleeping"
    /\ lpc' = [lpc EXCEPT ![h] = "acquiring"]
    /\ UNCHANGED <<lockKey, lheld, lrounds, lrelRet>>
    /\ LockFrame

\* A caller calls release() on its handle (whether or not it holds the lock).
LockReleaseCall(h) ==
    /\ lpc[h] = "idle"
    /\ lpc' = [lpc EXCEPT ![h] = "releasing"]
    /\ UNCHANGED <<lockKey, lheld, lrounds, lrelRet>>
    /\ LockFrame

LockReleaseEval_Raise(h) ==
    /\ lpc[h] = "releasing"
    /\ LET r == LuaRelease(lockKey, Token(h)) IN
         /\ lockKey' = r.key
         /\ lrelRet' = [lrelRet EXCEPT ![h] = r.ret]
         /\ lpc' = [lpc EXCEPT ![h] = IF r.ret = 0 THEN "raised" ELSE "idle"]
    /\ lheld' = [lheld EXCEPT ![h] = FALSE]
    /\ UNCHANGED lrounds
    /\ LockFrame

\* release(): the script runs, its result is dropped and release() returns.
LockReleaseEval(h) ==
    /\ lpc[h] = "releasing"
    /\ LET r == LuaRelease(lockKey, Token(h)) IN
         /\ lockKey' = r.key
         /\ lrelRet' = [lrelRet EXCEPT ![h] = r.ret]
    /\ lpc' = [lpc EXCEPT ![h] = "idle"]
    /\ lheld' = [lheld EXCEPT ![h] = FALSE]
    /\ UNCHANGED lrounds
    /\ LockFrame

NextLock ==
    \E h \in LockHandles :
        \/ LockAcquireCall(h)
        \/ LockAcquireTry(h)
        \/ LockAcquireWake(h)
        \/ LockReleaseCall(h)
        \/ LockReleaseEval(h)

(* ----------------------------- RedisRWLock ---------------------------- *)
\* An integer key: INCR and DECR treat an absent key as 0.
IntValue(key) == IF key = <<>> THEN 0 ELSE key[1]

Incr(key) == <<IntValue(key) + 1>>

Decr_Stuck(key) == <<IntValue(key)>>

Decr(key) == <<IntValue(key) - 1>>

\* if EXISTS write == 0 then return INCR readers else return 0
LuaAcquireRead_IgnoreWrite(write, readers) ==
    [ret |-> IntValue(Incr(readers)), readers |-> Incr(readers)]

LuaAcquireRead_Exclusive(write, readers) ==
    IF write = Nil /\ IntValue(readers) = 0
      THEN [ret |-> IntValue(Incr(readers)), readers |-> Incr(readers)]
      ELSE [ret |-> 0, readers |-> readers]

LuaAcquireRead_IncrFirst(write, readers) ==
    [ret |-> IF write = Nil THEN IntValue(Incr(readers)) ELSE 0,
     readers |-> Incr(readers)]

LuaAcquireRead(write, readers) ==
    IF write = Nil
      THEN [ret |-> IntValue(Incr(readers)), readers |-> Incr(readers)]
      ELSE [ret |-> 0, readers |-> readers]

\* if EXISTS write == 0 and (GET readers == false or GET readers == '0')
\* then return SET write token NX and 1 or 0 else return 0
LuaAcquireWrite_Overwrite(write, readers, token) ==
    IF readers = <<>> \/ readers = <<0>>
      THEN [ret |-> 1, write |-> token]
      ELSE [ret |-> 0, write |-> write]

LuaAcquireWrite_AbsentOnly(write, readers, token) ==
    IF write = Nil /\ readers = <<>>
      THEN [ret |-> 1, write |-> token]
      ELSE [ret |-> 0, write |-> write]

LuaAcquireWrite_IgnoreReaders(write, readers, token) ==
    IF write = Nil
      THEN [ret |-> 1, write |-> token]
      ELSE [ret |-> 0, write |-> write]

LuaAcquireWrite(write, readers, token) ==
    IF write = Nil /\ (readers = <<>> \/ readers = <<0>>)
      THEN [ret |-> IF SetNX(write, token).ok THEN 1 ELSE 0,
            write |-> SetNX(write, token).key]
      ELSE [ret |-> 0, write |-> write]

InitRW ==
    /\ writeKey = Nil
    /\ readersKey = <<>>
    /\ rwpc = [h \in RWHandles |-> "idle"]
    /\ is_reader = [h \in RWHandles |-> FALSE]
    /\ is_writer = [h \in RWHandles |-> FALSE]
    /\ rdAcq = [h \in RWHandles |-> 0]
    /\ rdRel = [h \in RWHandles |-> 0]
    /\ wrCalls = 0
    /\ wrelRet = -1

\* The caller of h is between two calls ("raised_read", "raised_write":
\* its last call, release_read() or release_write(), raised RuntimeError,
\* which it caught).
RWFree(h) == rwpc[h] \in {"idle", "raised_read", "raised_write"}

RWAcquireReadCall(h) ==
    /\ RWFree(h)
    /\ rdAcq[h] < MaxReadAcq
    /\ rwpc' = [rwpc EXCEPT ![h] = "acq_read"]
    /\ UNCHANGED <<writeKey, readersKey, is_reader, is_writer, rdAcq, rdRel,
                   wrCalls, wrelRet>>
    /\ RWFrame

\* One iteration of the loop of acquire_read().
RWAcquireReadTry(h) ==
    /\ rwpc[h] = "acq_read"
    /\ LET r == LuaAcquireRead(writeKey, readersKey) IN
         /\ readersKey' = r.readers
         /\ IF r.ret # 0
              THEN /\ is_reader' = [is_reader EXCEPT ![h] = TRUE]
                   /\ rdAcq' = [rdAcq EXCEPT ![h] =
                                   IF @ < MaxReadAcq THEN @ + 1 ELSE @]
                   /\ rwpc' = [rwpc EXCEPT ![h] = "idle"]
              ELSE /\ rwpc' = [rwpc EXCEPT ![h] = "sleep_read"]
                   /\ UNCHANGED <<is_reader, rdAcq>>
    /\ UNCHANGED <<writeKey, is_writer, rdRel, wrCalls, wrelRet>>
    /\ RWFrame

RWAcquireReadWake(h) ==
    /\ rwpc[h] = "sleep_read"
    /\ rwpc' = [rwpc EXCEPT ![h] = "acq_read"]
    /\ UNCHANGED <<writeKey, readersKey, is_reader, is_writer, rdAcq, rdRel,
                   wrCalls, wrelRet>>
    /\ RWFrame

RWReleaseReadCall_NoCheck(h) ==
    /\ RWFree(h)
    /\ rwpc' = [rwpc EXCEPT ![h] = "rel_read"]
    /\ UNCHANGED <<writeKey, readersKey, is_reader, is_writer, rdAcq, rdRel,
                   wrCalls, wrelRet>>
    /\ RWFrame

\* release_read() up to its await: raise if the flag is not set.
RWReleaseReadCall(h) ==
    /\ RWFree(h)
    /\ rwpc' = [rwpc EXCEPT ![h] =
                   IF is_reader[h] THEN "rel_read" ELSE "raised_read"]
    /\ UNCHANGED <<writeKey, readersKey, is_reader, is_writer, rdAcq, rdRel,
                   wrCalls, wrelRet>>
    /\ RWFrame

RWReleaseReadDecr_NoDecr(h) ==
    /\ rwpc[h] = "rel_read"
    /\ is_reader' = [is_reader EXCEPT ![h] = FALSE]
    /\ rdRel' = [rdRel EXCEPT ![h] = IF @ < MaxReadAcq THEN @ + 1 ELSE @]
    /\ rwpc' = [rwpc EXCEPT ![h] = "idle"]
    /\ UNCHANGED <<writeKey, readersKey, is_writer, rdAcq, wrCalls, wrelRet>>
    /\ RWFrame

\* release_read(): DECR, then clear the flag.
RWReleaseReadDecr(h) ==
    /\ rwpc[h] = "rel_read"
    /\ readersKey' = Decr(readersKey)
    /\ is_reader' = [is_reader EXCEPT ![h] = FALSE]
    /\ rdRel' = [rdRel EXCEPT ![h] = IF @ < MaxReadAcq THEN @ + 1 ELSE @]
    /\ rwpc' = [rwpc EXCEPT ![h] = "idle"]
    /\ UNCHANGED <<writeKey, is_writer, rdAcq, wrCalls, wrelRet>>
    /\ RWFrame

RWAcquireWriteCall(h) ==
    /\ RWFree(h)
    /\ wrCalls < MaxWriteCalls
    /\ wrCalls' = wrCalls + 1
    /\ rwpc' = [rwpc EXCEPT ![h] = "acq_write"]
    /\ UNCHANGED <<writeKey, readersKey, is_reader, is_writer, rdAcq, rdRel,
                   wrelRet>>
    /\ RWFrame

\* One iteration of the loop of acquire_write().
RWAcquireWriteTry(h) ==
    /\ rwpc[h] = "acq_write"
    /\ LET r == LuaAcquireWrite(writeKey, readersKey, Token(h)) IN
         /\ writeKey' = r.write
         /\ IF r.ret # 0
              THEN /\ is_writer' = [is_writer EXCEPT ![h] = TRUE]
                   /\ rwpc' = [rwpc EXCEPT ![h] = "idle"]
              ELSE /\ rwpc' = [rwpc EXCEPT ![h] = "sleep_write"]
                   /\ UNCHANGED is_writer
    /\ UNCHANGED <<readersKey, is_reader, rdAcq, rdRel, wrCalls, wrelRet>>
    /\ RWFrame

RWAcquireWriteWake(h) ==
    /\ rwpc[h] = "sleep_write"
    /\ rwpc' = [rwpc EXCEPT ![h] = "acq_write"]
    /\ UNCHANGED <<writeKey, readersKey, is_reader, is_writer, rdAcq, rdRel,
                   wrCalls, wrelRet>>
    /\ RWFrame

\* release_write() up to its await: raise if the flag is not set.
RWReleaseWriteCall(h) ==
    /\ RWFree(h)
    /\ rwpc' = [rwpc EXCEPT ![h] =
                   IF is_writer[h] THEN "rel_write" ELSE "raised_write"]
    /\ UNCHANGED <<writeKey, readersKey, is_reader, is_writer, rdAcq, rdRel,
                   wrCalls, wrelRet>>
    /\ RWFrame

RWReleaseWriteEval_Del(h) ==
    /\ rwpc[h] = "rel_write"
    /\ writeKey' = Nil
    /\ wrelRet' = IF writeKey = Nil THEN 0 ELSE 1
    /\ is_writer' = [is_writer EXCEPT ![h] = FALSE]
    /\ rwpc' = [rwpc EXCEPT ![h] = "idle"]
    /\ UNCHANGED <<readersKey, is_reader, rdAcq, rdRel, wrCalls>>
    /\ RWFrame

\* release_write(): the script, then clear the flag.
RWReleaseWriteEval(h) ==
    /\ rwpc[h] = "rel_write"
    /\ LET r == LuaRelease(writeKey, Token(h)) IN
         /\ writeKey' = r.key
         /\ wrelRet' = r.ret
    /\ is_writer' = [is_writer EXCEPT ![h] = FALSE]
    /\ rwpc' = [rwpc EXCEPT ![h] = "idle"]
    /\ UNCHANGED <<readersKey, is_reader, rdAcq, rdRel, wrCalls>>
    /\ RWFrame

NextRW ==
    \E h \in RWHandles :
        \/ RWAcquireReadCall(h)
        \/ RWAcquireReadTry(h)
        \/ RWAcquireReadWake(h)
        \/ RWReleaseReadCall(h)
        \/ RWReleaseReadDecr(h)
        \/ RWAcquireWriteCall(h)
        \/ RWAcquireWriteTry(h)
        \/ RWAcquireWriteWake(h)
        \/ RWReleaseWriteCall(h)
        \/ RWReleaseWriteEval(h)

(* ---------------------------- RedisSemaphore -------------------------- *)
\* LUA_SEMAPHORE_ACQUIRE: LLEN, and LPUSH the timestamp if below the limit.
LuaSemAcquire_OffByOne(list, now, limit) ==
    IF Len(list) <= limit
      THEN [ret |-> 1, list |-> <<now>> \o list]
      ELSE [ret |-> 0, list |-> list]

LuaSemAcquire(list, now, limit) ==
    IF Len(list) < limit
      THEN [ret |-> 1, list |-> <<now>> \o list]
      ELSE [ret |-> 0, list |-> list]

\* LUA_SEMAPHORE_CAN_ACQUIRE: LLEN, compared with the limit; no write.
LuaSemCanAcquire_Push(list, limit) ==
    IF Len(list) < limit
      THEN [ret |-> 1, list |-> <<0>> \o list]
      ELSE [ret |-> 0, list |-> list]

LuaSemCanAcquire(list, limit) ==
    [ret |-> IF Len(list) < limit THEN 1 ELSE 0, list |-> list]

\* RPOP: remove the tail; nothing happens on an empty list.
RPop_Keep(list) == list

RPop(list) ==
    IF list = <<>> THEN list ELSE SubSeq(list, 1, Len(list) - 1)

\* self.limit
Limit(h) == SemLimit

InitSem ==
    /\ permits = <<>>
    /\ spc = [h \in SemHandles |-> "idle"]
    /\ sclock = 0
    /\ sheld = [h \in SemHandles |-> 0]
    /\ scalls = 0
    /\ sval = -1
    /\ scan = -1

SemAcquireCall(h) ==
    /\ spc[h] = "idle"
    /\ scalls < MaxSemCalls
    /\ scalls' = scalls + 1
    /\ spc' = [spc EXCEPT ![h] = "acquiring"]
    /\ UNCHANGED <<permits, sclock, sheld, sval, scan>>
    /\ SemFrame

\* One iteration of the loop of acquire().
SemAcquireTry(h) ==
    /\ spc[h] = "acquiring"
    /\ LET r == LuaSemAcquire(permits, sclock, Limit(h)) IN
         /\ permits' = r.list
         /\ spc' = [spc EXCEPT ![h] =
                       IF r.ret = 1 THEN "idle" ELSE "sleeping"]
         /\ sheld' = [sheld EXCEPT ![h] = IF r.ret = 1 THEN @ + 1 ELSE @]
    /\ UNCHANGED <<sclock, scalls, sval, scan>>
    /\ SemFrame

SemAcquireWake(h) ==
    /\ spc[h] = "sleeping"
    /\ spc' = [spc EXCEPT ![h] = "acquiring"]
    /\ UNCHANGED <<permits, sclock, sheld, scalls, sval, scan>>
    /\ SemFrame

\* A caller calls release() on its handle (whether or not it holds a
\* permit).
SemReleaseCall(h) ==
    /\ spc[h] = "idle"
    /\ spc' = [spc EXCEPT ![h] = "releasing"]
    /\ UNCHANGED <<permits, sclock, sheld, scalls, sval, scan>>
    /\ SemFrame

SemReleasePop_OwnerOnly(h) ==
    /\ spc[h] = "releasing"
    /\ permits' = IF sheld[h] > 0 THEN RPop(permits) ELSE permits
    /\ spc' = [spc EXCEPT ![h] = "idle"]
    /\ sheld' = [sheld EXCEPT ![h] = IF @ > 0 THEN @ - 1 ELSE 0]
    /\ UNCHANGED <<sclock, scalls, sval, scan>>
    /\ SemFrame

SemReleasePop(h) ==
    /\ spc[h] = "releasing"
    /\ permits' = RPop(permits)
    /\ spc' = [spc EXCEPT ![h] = "idle"]
    /\ sheld' = [sheld EXCEPT ![h] = IF @ > 0 THEN @ - 1 ELSE 0]
    /\ UNCHANGED <<sclock, scalls, sval, scan>>
    /\ SemFrame

SemValueCall(h) ==
    /\ spc[h] = "idle"
    /\ spc' = [spc EXCEPT ![h] = "value"]
    /\ UNCHANGED <<permits, sclock, sheld, scalls, sval, scan>>
    /\ SemFrame

SemValueLLen_Remaining(h) ==
    /\ spc[h] = "value"
    /\ sval' = Limit(h) - Len(permits)
    /\ spc' = [spc EXCEPT ![h] = "idle"]
    /\ UNCHANGED <<permits, sclock, sheld, scalls, scan>>
    /\ SemFrame

\* value(): LLEN of the list.
SemValueLLen(h) ==
    /\ spc[h] = "value"
    /\ sval' = Len(permits)
    /\ spc' = [spc EXCEPT ![h] = "idle"]
    /\ UNCHANGED <<permits, sclock, sheld, scalls, scan>>
    /\ SemFrame

SemCanAcquireCall(h) ==
    /\ spc[h] = "idle"
    /\ spc' = [spc EXCEPT ![h] = "can_acquire"]
    /\ UNCHANGED <<permits, sclock, sheld, scalls, sval, scan>>
    /\ SemFrame

\* can_acquire(): the script, then `return ok == 1`.
SemCanAcquireEval(h) ==
    /\ spc[h] = "can_acquire"
    /\ LET r == LuaSemCanAcquire(permits, Limit(h)) IN
         /\ permits' = r.list
         /\ scan' = IF r.ret = 1 THEN 1 ELSE 0
    /\ spc' = [spc EXCEPT ![h] = "idle"]
    /\ UNCHANGED <<sclock, sheld, scalls, sval>>
    /\ SemFrame

\* The wall clock advances.
SemTick ==
    /\ sclock < MaxTime
    /\ sclock' = sclock + 1
    /\ UNCHANGED <<permits, spc, sheld, scalls, sval, scan>>
    /\ SemFrame

NextSem ==
    \/ \E h \in SemHandles :
        \/ SemAcquireCall(h)
        \/ SemAcquireTry(h)
        \/ SemAcquireWake(h)
        \/ SemReleaseCall(h)
        \/ SemReleasePop(h)
    \/ SemTick

(* ----------------------------- RedisLimiter --------------------------- *)
\* int(self.time_period): whole seconds of a period given in ticks.
IntSeconds(ticks) == ticks \div TicksPerSecond

\* The saturating successor used for the counter and its ghosts.
Bump(n, cap) == IF n < cap THEN n + 1 ELSE n

Pipeline_UndoOnDeny(value, ttl, seconds) ==
    [count |-> Bump(value, CountCap),
     value |-> IF Bump(value, CountCap) > RateLimit
                 THEN value ELSE Bump(value, CountCap),
     ttl   |-> seconds * TicksPerSecond]

\* tx.incr(name); tx.expire(name, seconds); tx.execute(): one MULTI/EXEC.
\* INCR creates the key at 1 without an expiry; EXPIRE with a time that is
\* not positive deletes the key.
Pipeline_NoExpire(value, ttl, seconds) ==
    [count |-> Bump(value, CountCap),
     value |-> Bump(value, CountCap),
     ttl   |-> ttl]

Pipeline(value, ttl, seconds) ==
    IF seconds <= 0
      THEN [count |-> Bump(value, CountCap), value |-> 0, ttl |-> 0]
      ELSE [count |-> Bump(value, CountCap),
            value |-> Bump(value, CountCap),
            ttl   |-> seconds * TicksPerSecond]

\* return count <= self.rate_limit
Allowed_Strict(count) == count < RateLimit

Allowed(count) == count <= RateLimit

InitLim ==
    /\ limLockKey = Nil
    /\ ctr = 0
    /\ ctrTTL = 0
    /\ cpc = [c \in LimCallers |-> "idle"]
    /\ cscoped = [c \in LimCallers |-> FALSE]
    /\ callowed = [c \in LimCallers |-> -1]
    /\ ctimer = [c \in LimCallers |-> 0]
    /\ ccalls = [c \in LimCallers |-> 0]
    /\ winIncr = 0
    /\ winAllowed = 0
    /\ winAge = 0

\* The caller calls limiter.acquire().
LimAcquireCall(c) ==
    /\ cpc[c] = "idle"
    /\ ccalls[c] < MaxCalls
    /\ ccalls' = [ccalls EXCEPT ![c] = @ + 1]
    /\ cpc' = [cpc EXCEPT ![c] = "locking"]
    /\ cscoped' = [cscoped EXCEPT ![c] = FALSE]
    /\ callowed' = [callowed EXCEPT ![c] = -1]
    /\ UNCHANGED <<limLockKey, ctr, ctrTTL, ctimer, winIncr, winAllowed, winAge>>
    /\ LimFrame

\* The caller enters `async with limiter`: __aenter__ calls acquire().
LimEnterCall(c) ==
    /\ cpc[c] = "idle"
    /\ ccalls[c] < MaxCalls
    /\ ccalls' = [ccalls EXCEPT ![c] = @ + 1]
    /\ cpc' = [cpc EXCEPT ![c] = "locking"]
    /\ cscoped' = [cscoped EXCEPT ![c] = TRUE]
    /\ callowed' = [callowed EXCEPT ![c] = -1]
    /\ UNCHANGED <<limLockKey, ctr, ctrTTL, ctimer, winIncr, winAllowed, winAge>>
    /\ LimFrame

\* async with self._lock: one iteration of RedisLock.acquire().
LimLockTry(c) ==
    /\ cpc[c] = "locking"
    /\ LET r == SetNX(limLockKey, Token(c)) IN
         /\ limLockKey' = r.key
         /\ cpc' = [cpc EXCEPT ![c] = IF r.ok THEN "exec" ELSE "lock_sleep"]
    /\ UNCHANGED <<ccalls, ctr, ctrTTL, cscoped, callowed, ctimer,
                   winIncr, winAllowed, winAge>>
    /\ LimFrame

\* The sleep of RedisLock.acquire() is over (0.1 s: less than a tick).
LimLockWake(c) ==
    /\ cpc[c] = "lock_sleep"
    /\ cpc' = [cpc EXCEPT ![c] = "locking"]
    /\ UNCHANGED <<ccalls, limLockKey, ctr, ctrTTL, cscoped, callowed, ctimer,
                   winIncr, winAllowed, winAge>>
    /\ LimFrame

\* The pipeline runs and acquire() computes count <= rate_limit.
LimExec(c) ==
    /\ cpc[c] = "exec"
    /\ LET r == Pipeline(ctr, ctrTTL, IntSeconds(TimePeriod))
           ok == Allowed(r.count) IN
         /\ ctr' = r.value
         /\ ctrTTL' = r.ttl
         /\ callowed' = [callowed EXCEPT ![c] = IF ok THEN 1 ELSE 0]
         /\ winIncr' = IF r.value = 0 THEN 0 ELSE Bump(winIncr, CountCap)
         /\ winAllowed' = IF r.value = 0 THEN 0
                          ELSE IF ok THEN Bump(winAllowed, CountCap)
                          ELSE winAllowed
         /\ winAge' = IF r.value = 0 \/ ctr = 0 THEN 0 ELSE winAge
    /\ cpc' = [cpc EXCEPT ![c] = "unlocking"]
    /\ UNCHANGED <<ccalls, limLockKey, cscoped, ctimer>>
    /\ LimFrame

\* The lock is released and acquire() returns; __aenter__ returns when the
\* answer was True and sleeps otherwise.
LimUnlock(c) ==
    /\ cpc[c] = "unlocking"
    /\ limLockKey' = LuaRelease(limLockKey, Token(c)).key
    /\ IF ~cscoped[c]
         THEN /\ cpc' = [cpc EXCEPT ![c] = "idle"]
              /\ UNCHANGED ctimer
         ELSE IF callowed[c] = 1
         THEN /\ cpc' = [cpc EXCEPT ![c] = "in_block"]
              /\ UNCHANGED ctimer
         ELSE /\ cpc' = [cpc EXCEPT ![c] = "enter_sleep"]
              /\ ctimer' = [ctimer EXCEPT ![c] = LimSleep]
    /\ UNCHANGED <<ccalls, ctr, ctrTTL, cscoped, callowed, winIncr, winAllowed, winAge>>
    /\ LimFrame

\* asyncio.sleep(self.sleep) of __aenter__ is over; the loop polls again.
LimEnterWake(c) ==
    /\ cpc[c] = "enter_sleep"
    /\ ctimer[c] = 0
    /\ cpc' = [cpc EXCEPT ![c] = "locking"]
    /\ UNCHANGED <<ccalls, limLockKey, ctr, ctrTTL, cscoped, callowed, ctimer,
                   winIncr, winAllowed, winAge>>
    /\ LimFrame

\* The block of `async with limiter` ends; __aexit__ does nothing.
LimExit(c) ==
    /\ cpc[c] = "in_block"
    /\ cpc' = [cpc EXCEPT ![c] = "idle"]
    /\ cscoped' = [cscoped EXCEPT ![c] = FALSE]
    /\ UNCHANGED <<ccalls, limLockKey, ctr, ctrTTL, callowed, ctimer,
                   winIncr, winAllowed, winAge>>
    /\ LimFrame

\* One tick of time: sleeps run down and the store expires the counter key
\* when its time to live is over.
LimTick ==
    /\ ctimer' = [c \in LimCallers |-> IF ctimer[c] > 0 THEN ctimer[c] - 1 ELSE 0]
    /\ IF ctr > 0 /\ ctrTTL = 1
         THEN /\ ctr' = 0
              /\ ctrTTL' = 0
              /\ winIncr' = 0
              /\ winAllowed' = 0
              /\ winAge' = 0
         ELSE /\ ctr' = ctr
              /\ ctrTTL' = IF ctrTTL > 1 THEN ctrTTL - 1 ELSE ctrTTL
              /\ winAge' = IF ctr > 0 THEN Bump(winAge, AgeCap) ELSE winAge
              /\ UNCHANGED <<winIncr, winAllowed>>
    /\ UNCHANGED <<ccalls, limLockKey, cpc, cscoped, callowed>>
    /\ LimFrame

NextLim ==
    \/ \E c \in LimCallers :
        \/ LimAcquireCall(c)
        \/ LimEnterCall(c)
        \/ LimLockTry(c)
        \/ LimLockWake(c)
        \/ LimExec(c)
        \/ LimUnlock(c)
        \/ LimEnterWake(c)
        \/ LimExit(c)
    \/ LimTick

(* ----------------------------- RedisQueue ----------------------------- *)
MaxPuts == 3          \* put() calls made on one queue

\* Items given to put(): strings, the empty string among them.
Items == {"job1", "job2", ""}

Impls == {"structures", "legacy"}

\* Serializer.serialize of a str: json.dumps puts it between double quotes.
Serialize(item) == "\"" \o item \o "\""

\* Serializer.deserialize of the JSON text of a str: json.loads takes the
\* quotes away.
Deserialize(text) == SubSeq(text, 2, Len(text) - 1)

\* What is sent to the store for a value, and the value made of what the
\* store returns.
Encode(value) == IF impl = "structures" THEN Serialize(value) ELSE value

Decode(text) == IF impl = "structures" THEN Deserialize(text) ELSE text

\* `if val` on a str.
Truthy(text) == text # ""

RPush(list, text) == Append(list, text)

LPop_Newest(list) ==
    IF list = <<>> THEN [ret |-> <<>>, list |-> list]
    ELSE [ret |-> <<list[Len(list)]>>, list |-> SubSeq(list, 1, Len(list) - 1)]

\* LPOP: the reply (<<>> is nil) and the list afterwards.
LPop(list) ==
    IF list = <<>> THEN [ret |-> <<>>, list |-> list]
    ELSE [ret |-> <<Head(list)>>, list |-> Tail(list)]

\* LRANGE name 0 0
LRangeFirst(list) == IF list = <<>> THEN <<>> ELSE <<Head(list)>>

InitQueue ==
    /\ qlist = <<>>
    /\ qhist = <<>>
    /\ qtaken = 0
    /\ qop = "none"
    /\ qret = <<>>
    /\ qsize = -1

QueueFrame ==
    UNCHANGED <<lockVars, rwVars, semVars, limVars, ctxVars, impl, dictVars,
                listVars>>

QueuePut(item) ==
    /\ Len(qhist) < MaxPuts
    /\ qlist' = RPush(qlist, Encode(item))
    /\ qhist' = Append(qhist, item)
    /\ qop' = "put"
    /\ UNCHANGED <<qtaken, qret, qsize>>
    /\ QueueFrame

\* get(): the structures class decodes a truthy reply and returns None
\* otherwise; the legacy class returns the reply.
QueueGet ==
    /\ LET r == LPop(qlist)
           out == IF impl = "structures"
                    THEN IF r.ret # <<>> /\ Truthy(r.ret[1])
                           THEN <<Deserialize(r.ret[1])>>
                           ELSE <<>>
                    ELSE r.ret
       IN /\ qlist' = r.list
          /\ qret' = out
          /\ qtaken' = IF out # <<>> THEN qtaken + 1 ELSE qtaken
    /\ qop' = "get"
    /\ UNCHANGED <<qhist, qsize>>
    /\ QueueFrame

QueuePeek ==
    /\ LET items == LRangeFirst(qlist) IN
          qret' = IF items # <<>> THEN <<Decode(items[1])>> ELSE <<>>
    /\ qop' = "peek"
    /\ UNCHANGED <<qlist, qhist, qtaken, qsize>>
    /\ QueueFrame

QueueSize ==
    /\ qsize' = Len(qlist)
    /\ qop' = "size"
    /\ UNCHANGED <<qlist, qhist, qtaken, qret>>
    /\ QueueFrame

NextQueue ==
    \/ \E item \in Items : QueuePut(item)
    \/ QueueGet
    \/ QueuePeek
    \/ QueueSize

(* ------------------------------ RedisDict ----------------------------- *)
NumDictCallers == 2   \* tasks that call setdefault() on one key of one dict
MaxDictCalls == 2     \* setdefault() calls made on the key
MaxDictWrites == 1    \* __setitem__ / __delitem__ calls made on the key

DictCallers == 1..NumDictCallers

\* What setdefault() gives its caller when HGET finds the field gone:
\* Serializer.deserialize(None) raises ValueError, the legacy class
\* returns None.
HGetMissing ==
    IF impl = "structures" THEN <<"raise", "ValueError">>
    ELSE <<"return", "None">>

InitDict ==
    /\ dhash = <<>>
    /\ dpc = [c \in DictCallers |-> "idle"]
    /\ ddef = [c \in DictCallers |-> <<>>]
    /\ dret = [c \in DictCallers |-> <<>>]
    /\ dcalls = 0
    /\ dwrites = 0

DictFrame ==
    UNCHANGED <<lockVars, rwVars, semVars, limVars, ctxVars, impl, queueVars,
                listVars>>

\* setdefault(key, default) up to its first await.
DictSetdefaultCall(c, default) ==
    /\ dpc[c] = "idle"
    /\ dcalls < MaxDictCalls
    /\ dcalls' = dcalls + 1
    /\ ddef' = [ddef EXCEPT ![c] = <<default>>]
    /\ dpc' = [dpc EXCEPT ![c] = "hexists"]
    /\ UNCHANGED <<dhash, dret, dwrites>>
    /\ DictFrame

\* exists = await hexists(...)
DictHExists(c) ==
    /\ dpc[c] = "hexists"
    /\ dpc' = [dpc EXCEPT ![c] = IF dhash # <<>> THEN "hget" ELSE "hset"]
    /\ UNCHANGED <<dhash, ddef, dret, dcalls, dwrites>>
    /\ DictFrame

\* if not exists: await hset(...); return default
DictHSet(c) ==
    /\ dpc[c] = "hset"
    /\ dhash' = <<Encode(ddef[c][1])>>
    /\ dret' = [dret EXCEPT ![c] = ddef[c]]
    /\ dpc' = [dpc EXCEPT ![c] = "idle"]
    /\ UNCHANGED <<ddef, dcalls, dwrites>>
    /\ DictFrame

\* val = await hget(...); return it (decoded)
DictHGet(c) ==
    /\ dpc[c] = "hget"
    /\ dret' = [dret EXCEPT ![c] =
                   IF dhash # <<>> THEN <<Decode(dhash[1])>> ELSE HGetMissing]
    /\ dpc' = [dpc EXCEPT ![c] = "idle"]
    /\ UNCHANGED <<dhash, ddef, dcalls, dwrites>>
    /\ DictFrame

\* Another writer of the key: d[key] = value.
DictSetItem(value) ==
    /\ dwrites < MaxDictWrites
    /\ dwrites' = dwrites + 1
    /\ dhash' = <<Encode(value)>>
    /\ UNCHANGED <<dpc, ddef, dret, dcalls>>
    /\ DictFrame

\* Another writer of the key: del d[key].
DictDelItem ==
    /\ dwrites < MaxDictWrites
    /\ dwrites' = dwrites + 1
    /\ dhash' = <<>>
    /\ UNCHANGED <<dpc, ddef, dret, dcalls>>
    /\ DictFrame

NextDict ==
    \/ \E c \in DictCallers :
          \/ \E default \in Items : DictSetdefaultCall(c, default)
          \/ DictHExists(c)
          \/ DictHSet(c)
          \/ DictHGet(c)
    \/ \E value \in Items : DictSetItem(value)
    \/ DictDelItem

\* -------------------------------------------------------------------
\* RedisList (src/redisify/list.py): append, pop and insert on one key.

NumListClients == 2   \* clients working on the same list
MaxListOps == 3       \* append / pop / insert calls made on the list

ListClients == 1 .. NumListClients

ListItems == {"a", "b"}

\* The indices a caller passes to insert(): in range, out of range, and
\* negative ones counted from the end.
ListIndices == (0 - MaxListOps) .. MaxListOps

NoRequest == [index |-> 0, value |-> ""]

LRangeAll(list) == list

\* Python's list.insert(index, value) for 0 <= index <= len(list).
ListInsert(list, index, value) ==
    SubSeq(list, 1, index) \o <<value>> \o SubSeq(list, index + 1, Len(list))

\* `if index < 0: index += len(deserialized)`
NormIndex(index, length) == IF index < 0 THEN index + length ELSE index

InitList ==
    /\ llist = <<>>
    /\ ipc = [c \in ListClients |-> "idle"]
    /\ ireq = [c \in ListClients |-> NoRequest]
    /\ inew = [c \in ListClients |-> <<>>]
    /\ lops = 0

ListFrame ==
    UNCHANGED <<lockVars, rwVars, semVars, limVars, ctxVars, impl, queueVars,
                dictVars>>

ListFree(c) == ipc[c] \in {"idle", "raised_index"}

ListAppend(c, item) ==
    /\ ListFree(c)
    /\ lops < MaxListOps
    /\ lops' = lops + 1
    /\ llist' = RPush(llist, Serialize(item))
    /\ ipc' = [ipc EXCEPT ![c] = "idle"]
    /\ UNCHANGED <<ireq, inew>>
    /\ ListFrame

ListPop(c) ==
    /\ ListFree(c)
    /\ lops < MaxListOps
    /\ lops' = lops + 1
    /\ llist' = RPop(llist)
    /\ ipc' = [ipc EXCEPT ![c] = "idle"]
    /\ UNCHANGED <<ireq, inew>>
    /\ ListFrame

\* insert() up to its second await: LRANGE 0 -1, deserialize, normalise
\* and check the index, rebuild the list locally and serialize it.
ListInsertRead(c, index, value) ==
    /\ ListFree(c)
    /\ lops < MaxListOps
    /\ lops' = lops + 1
    /\ LET all_items == LRangeAll(llist)
           deserialized == [i \in DOMAIN all_items |-> Deserialize(all_items[i])]
           idx == NormIndex(index, Len(deserialized))
           inserted == ListInsert(deserialized, idx, value)
       IN IF idx < 0 \/ idx > Len(deserialized)
            THEN /\ ipc' = [ipc EXCEPT ![c] = "raised_index"]
                 /\ UNCHANGED <<ireq, inew>>
            ELSE /\ ipc' = [ipc EXCEPT ![c] = "insert_write"]
                 /\ ireq' = [ireq EXCEPT ![c] = [index |-> idx, value |-> value]]
                 /\ inew' = [inew EXCEPT ![c] =
                                [i \in DOMAIN inserted |-> Serialize(inserted[i])]]
    /\ UNCHANGED llist
    /\ ListFrame

\* The pipeline of insert(): DELETE, then RPUSH of the rebuilt list, run
\* by the server as one transaction.
ListInsertExec(c) ==
    /\ ipc[c] = "insert_write"
    /\ llist' = inew[c]
    /\ ipc' = [ipc EXCEPT ![c] = "idle"]
    /\ inew' = [inew EXCEPT ![c] = <<>>]
    /\ UNCHANGED <<ireq, lops>>
    /\ ListFrame

NextList ==
    \E c \in ListClients :
        \/ \E item \in ListItems : ListAppend(c, item)
        \/ ListPop(c)
        \/ \E index \in ListIndices, value \in ListItems :
              ListInsertRead(c, index, value)
        \/ ListInsertExec(c)

CtxHandles == LockHandles \cup RWHandles \cup SemHandles

\* No `async with` statement is used.
InitCtx ==
    /\ cm = "none"
    /\ body = [h \in CtxHandles |-> "out"]
    /\ entry = [h \in RWHandles |-> "none"]

Init ==
    /\ InitLock /\ InitRW /\ InitSem /\ InitLim /\ InitCtx
    /\ impl = "structures" /\ InitQueue /\ InitDict /\ InitList

\* A run uses the container classes of one module.
InitContainers ==
    /\ InitLock /\ InitRW /\ InitSem /\ InitLim /\ InitCtx
    /\ impl \in Impls /\ InitQueue /\ InitDict /\ InitList

SpecQueue == InitContainers /\ [][NextQueue]_vars

SpecDict == InitContainers /\ [][NextDict]_vars

SpecList == Init /\ [][NextList]_vars

SpecLock == Init /\ [][NextLock]_vars

SpecRW == Init /\ [][NextRW]_vars

SpecSem == Init /\ [][NextSem]_vars

SpecLim == Init /\ [][NextLim]_vars

\* The event loop runs every pending store call and every expired sleep,
\* and time passes.
FairLim ==
    /\ WF_vars(LimTick)
    /\ \A c \in LimCallers :
        /\ WF_vars(LimLockTry(c))
        /\ WF_vars(LimLockWake(c))
        /\ WF_vars(LimExec(c))
        /\ WF_vars(LimUnlock(c))
        /\ WF_vars(LimEnterWake(c))

SpecLimFair == Init /\ [][NextLim]_vars /\ FairLim

\* Callers that use a lock handle as the scoped form does: acquire() only
\* when not holding, release() only when holding.
LockAcquireCallWB(h) == ~lheld[h] /\ LockAcquireCall(h)

LockReleaseCallWB(h) == lheld[h] /\ LockReleaseCall(h)

NextLockWB ==
    \E h \in LockHandles :
        \/ LockAcquireCallWB(h)
        \/ LockAcquireTry(h)
        \/ LockAcquireWake(h)
        \/ LockReleaseCallWB(h)
        \/ LockReleaseEval(h)

\* The event loop runs every pending store call and every expired sleep,
\* and a holder eventually calls release().
FairLock ==
    \A h \in LockHandles :
        /\ WF_vars(LockAcquireTry(h))
        /\ WF_vars(LockAcquireWake(h))
        /\ WF_vars(LockReleaseEval(h))
        /\ WF_vars(LockReleaseCallWB(h))

SpecLockFair == Init /\ [][NextLockWB]_vars /\ FairLock

\* Callers that use a reader/writer handle as the scoped forms do: one mode
\* at a time, release_read() only after acquire_read(), release_write()
\* only after acquire_write().
RWAcquireReadCallWB(h) ==
    ~is_reader[h] /\ ~is_writer[h] /\ RWAcquireReadCall(h)

RWReleaseReadCallWB(h) == is_reader[h] /\ RWReleaseReadCall(h)

RWAcquireWriteCallWB(h) ==
    ~is_reader[h] /\ ~is_writer[h] /\ RWAcquireWriteCall(h)

RWReleaseWriteCallWB(h) == is_writer[h] /\ RWReleaseWriteCall(h)

NextRWWB ==
    \E h \in RWHandles :
        \/ RWAcquireReadCallWB(h)
        \/ RWAcquireReadTry(h)
        \/ RWAcquireReadWake(h)
        \/ RWReleaseReadCallWB(h)
        \/ RWReleaseReadDecr(h)
        \/ RWAcquireWriteCallWB(h)
        \/ RWAcquireWriteTry(h)
        \/ RWAcquireWriteWake(h)
        \/ RWReleaseWriteCallWB(h)
        \/ RWReleaseWriteEval(h)

\* The event loop runs every pending store call and every expired sleep,
\* and a reader or writer eventually calls its release.
FairRW ==
    \A h \in RWHandles :
        /\ WF_vars(RWAcquireReadTry(h))
        /\ WF_vars(RWAcquireReadWake(h))
        /\ WF_vars(RWReleaseReadCallWB(h))
        /\ WF_vars(RWReleaseReadDecr(h))
        /\ WF_vars(RWAcquireWriteTry(h))
        /\ WF_vars(RWAcquireWriteWake(h))
        /\ WF_vars(RWReleaseWriteCallWB(h))
        /\ WF_vars(RWReleaseWriteEval(h))

SpecRWFair == Init /\ [][NextRWWB]_vars /\ FairRW

\* Callers of a semaphore handle that release only permits they acquired,
\* and that ask for the value.
SemReleaseCallWB(h) == sheld[h] > 0 /\ SemReleaseCall(h)

NextSemPaired ==
    \/ \E h \in SemHandles :
        \/ SemAcquireCall(h)
        \/ SemAcquireTry(h)
        \/ SemAcquireWake(h)
        \/ SemReleaseCallWB(h)
        \/ SemReleasePop(h)
        \/ SemValueCall(h)
        \/ SemValueLLen(h)
    \/ SemTick

SpecSemPaired == Init /\ [][NextSemPaired]_vars


\* Callers that use a semaphore handle as the scoped form does: acquire()
\* only when holding no permit, release() only when holding one.
SemAcquireCallWB(h) == sheld[h] = 0 /\ SemAcquireCall(h)

NextSemWB ==
    \/ \E h \in SemHandles :
        \/ SemAcquireCallWB(h)
        \/ SemAcquireTry(h)
        \/ SemAcquireWake(h)
        \/ SemReleaseCallWB(h)
        \/ SemReleasePop(h)
    \/ SemTick

\* The event loop runs every pending store call and every expired sleep,
\* and a holder eventually calls release().
FairSem ==
    \A h \in SemHandles :
        /\ WF_vars(SemAcquireTry(h))
        /\ WF_vars(SemAcquireWake(h))
        /\ WF_vars(SemReleaseCallWB(h))
        /\ WF_vars(SemReleasePop(h))

SpecSemFair == Init /\ [][NextSemWB]_vars /\ FairSem

\* Callers that pair acquire() and release() and that also ask whether a
\* permit is free.
NextSemCheck ==
    \/ NextSemWB
    \/ \E h \in SemHandles : SemCanAcquireCall(h)
    \/ \E h \in SemHandles : SemCanAcquireEval(h)

SpecSemCheck == Init /\ [][NextSemCheck]_vars

\* Scoped acquisition: tasks that use their handle only in
\*     async with <handle>: <body>
\* where the body ends normally ("ok") or by raising ("exc").  __aenter__
\* awaits acquire; __aexit__ awaits release whatever its arguments are.
\* A run uses one primitive: RedisLock, RedisSemaphore, or RedisRWLock in
\* read mode (lock('r')) and write mode (lock('w'), lock).
InitScoped ==
    /\ InitLock /\ InitRW /\ InitSem /\ InitLim
    /\ impl = "structures" /\ InitQueue /\ InitDict /\ InitList
    /\ cm \in {"lock", "semaphore", "rwlock"}
    /\ body = [h \in CtxHandles |-> "out"]
    /\ entry = [h \in RWHandles |-> "none"]

ExitPaths == {"ok", "exc"}

\* RedisLock.__aenter__ up to the first await of acquire().
CtxLockEnter(h) ==
    /\ cm = "lock"
    /\ body[h] # "in"
    /\ lpc[h] = "idle"
    /\ lrounds[h] < MaxRounds
    /\ body' = [body EXCEPT ![h] = "in"]
    /\ lpc' = [lpc EXCEPT ![h] = "acquiring"]
    /\ lrounds' = [lrounds EXCEPT ![h] = @ + 1]
    /\ UNCHANGED <<lockKey, lheld, lrelRet, cm, entry>>
    /\ UNCHANGED <<rwVars, semVars, limVars, dsVars>>

CtxLockExit_OkOnly(h) ==
    /\ cm = "lock"
    /\ body[h] = "in" /\ lpc[h] = "idle" /\ lheld[h]
    /\ \E path \in ExitPaths :
          /\ body' = [body EXCEPT ![h] = path]
          /\ lpc' = [lpc EXCEPT ![h] =
                         IF path = "ok" THEN "releasing" ELSE "idle"]
    /\ UNCHANGED <<lockKey, lheld, lrounds, lrelRet, cm, entry>>
    /\ UNCHANGED <<rwVars, semVars, limVars, dsVars>>

\* The body ends and RedisLock.__aexit__ runs up to the await of release().
CtxLockExit(h) ==
    /\ cm = "lock"
    /\ body[h] = "in" /\ lpc[h] = "idle" /\ lheld[h]
    /\ \E path \in ExitPaths :
          /\ body' = [body EXCEPT ![h] = path]
          /\ lpc' = [lpc EXCEPT ![h] = "releasing"]
    /\ UNCHANGED <<lockKey, lheld, lrounds, lrelRet, cm, entry>>
    /\ UNCHANGED <<rwVars, semVars, limVars, dsVars>>

\* RedisSemaphore.__aenter__ up to the first await of acquire().
CtxSemEnter(h) ==
    /\ cm = "semaphore"
    /\ body[h] # "in"
    /\ spc[h] = "idle"
    /\ scalls < MaxSemCalls
    /\ body' = [body EXCEPT ![h] = "in"]
    /\ spc' = [spc EXCEPT ![h] = "acquiring"]
    /\ scalls' = scalls + 1
    /\ UNCHANGED <<permits, sclock, sheld, sval, scan, cm, entry>>
    /\ UNCHANGED <<lockVars, rwVars, limVars, dsVars>>

\* The body ends and RedisSemaphore.__aexit__ runs up to the await of
\* release().
CtxSemExit(h) ==
    /\ cm = "semaphore"
    /\ body[h] = "in" /\ spc[h] = "idle" /\ sheld[h] > 0
    /\ \E path \in ExitPaths : body' = [body EXCEPT ![h] = path]
    /\ spc' = [spc EXCEPT ![h] = "releasing"]
    /\ UNCHANGED <<permits, sclock, sheld, scalls, sval, scan, cm, entry>>
    /\ UNCHANGED <<lockVars, rwVars, limVars, dsVars>>

\* The expressions a reader/writer handle `lock` is used with in
\* `async with`: lock('w'), lock (deprecated), await lock('r') and
\* await lock.read_lock().
EntryForms == {"lock('w')", "lock", "lock('r')", "read_lock()"}

Call_Swapped(mode) == IF mode = "r" THEN "self" ELSE "_ReadCtx"

\* RedisRWLock.__call__ for a mode in ('r', 'w'): the handle itself for
\* 'w', the object returned by read_lock() otherwise.
Call(mode) == IF mode = "w" THEN "self" ELSE "_ReadCtx"

\* The context manager whose __aenter__ and __aexit__ the statement runs.
ContextOf(form) ==
    CASE form = "lock" -> "self"
      [] form = "lock('w')" -> Call("w")
      [] form = "lock('r')" -> Call("r")
      [] form = "read_lock()" -> "_ReadCtx"

\* _ReadCtx.__aenter__ awaits acquire_read(), RedisRWLock.__aenter__ awaits
\* acquire_write(); each up to the first await of its acquire.
CtxRWEnter(h) ==
    /\ cm = "rwlock"
    /\ body[h] # "in"
    /\ rwpc[h] = "idle"
    /\ \E form \in EntryForms :
          /\ entry' = [entry EXCEPT ![h] = form]
          /\ IF ContextOf(form) = "_ReadCtx"
               THEN /\ rdAcq[h] < MaxReadAcq
                    /\ rwpc' = [rwpc EXCEPT ![h] = "acq_read"]
                    /\ UNCHANGED wrCalls
               ELSE /\ wrCalls < MaxWriteCalls
                    /\ wrCalls' = wrCalls + 1
                    /\ rwpc' = [rwpc EXCEPT ![h] = "acq_write"]
    /\ body' = [body EXCEPT ![h] = "in"]
    /\ UNCHANGED <<writeKey, readersKey, is_reader, is_writer, rdAcq, rdRel,
                   wrelRet, cm>>
    /\ UNCHANGED <<lockVars, semVars, limVars, dsVars>>

\* The body ends and the __aexit__ of the context manager that was entered
\* runs up to the await of release_read() or release_write(), whose flag
\* is set.
CtxRWExit(h) ==
    /\ cm = "rwlock"
    /\ body[h] = "in" /\ rwpc[h] = "idle"
    /\ is_reader[h] \/ is_writer[h]
    /\ \E path \in ExitPaths : body' = [body EXCEPT ![h] = path]
    /\ rwpc' = [rwpc EXCEPT ![h] =
                   IF ContextOf(entry[h]) = "_ReadCtx"
                     THEN "rel_read" ELSE "rel_write"]
    /\ UNCHANGED <<writeKey, readersKey, is_reader, is_writer, rdAcq, rdRel,
                   wrCalls, wrelRet, cm, entry>>
    /\ UNCHANGED <<lockVars, semVars, limVars, dsVars>>

NextScoped ==
    \/ \E h \in LockHandles :
          \/ CtxLockEnter(h)
          \/ cm = "lock" /\ LockAcquireTry(h)
          \/ cm = "lock" /\ LockAcquireWake(h)
          \/ CtxLockExit(h)
          \/ cm = "lock" /\ LockReleaseEval(h)
    \/ \E h \in SemHandles :
          \/ CtxSemEnter(h)
          \/ cm = "semaphore" /\ SemAcquireTry(h)
          \/ cm = "semaphore" /\ SemAcquireWake(h)
          \/ CtxSemExit(h)
          \/ cm = "semaphore" /\ SemReleasePop(h)
    \/ \E h \in RWHandles :
          \/ CtxRWEnter(h)
          \/ cm = "rwlock" /\ RWAcquireReadTry(h)
          \/ cm = "rwlock" /\ RWAcquireReadWake(h)
          \/ cm = "rwlock" /\ RWAcquireWriteTry(h)
          \/ cm = "rwlock" /\ RWAcquireWriteWake(h)
          \/ CtxRWExit(h)
          \/ cm = "rwlock" /\ RWReleaseReadDecr(h)
          \/ cm = "rwlock" /\ RWReleaseWriteEval(h)

SpecScoped == InitScoped /\ [][NextScoped]_vars

\* Cancellation.  task.cancel() raises CancelledError in the task at the
\* await it is suspended in; RedisRWLock has no handler for it.
\*
\* The task that holds a read or write slot through h is cancelled in its
\* own code, between acquire and release, and does not catch the error:
\* the task ends ("cancelled") and no code of the handle runs.
RWCancelHolding(h) ==
    /\ rwpc[h] = "idle"
    /\ is_reader[h] \/ is_writer[h]
    /\ rwpc' = [rwpc EXCEPT ![h] = "cancelled"]
    /\ UNCHANGED <<writeKey, readersKey, is_reader, is_writer, rdAcq, rdRel,
                   wrCalls, wrelRet>>
    /\ RWFrame

\* release_write() is cancelled at its await: the script has run on the
\* server or it has not, the line that clears the flag is skipped, and
\* the caller catches the error and goes on using the handle.
RWReleaseWriteCancel(h) ==
    /\ rwpc[h] = "rel_write"
    /\ \E ran \in BOOLEAN :
          LET r == LuaRelease(writeKey, Token(h)) IN
            /\ writeKey' = IF ran THEN r.key ELSE writeKey
            /\ wrelRet' = IF ran THEN r.ret ELSE wrelRet
    /\ rwpc' = [rwpc EXCEPT ![h] = "idle"]
    /\ UNCHANGED <<readersKey, is_reader, is_writer, rdAcq, rdRel, wrCalls>>
    /\ RWFrame

\* Callers that pair their calls as the scoped forms do, and whose tasks
\* can be cancelled.
NextRWCancel ==
    \/ NextRWWB
    \/ \E h \in RWHandles : RWCancelHolding(h)
    \/ \E h \in RWHandles : RWReleaseWriteCancel(h)

SpecRWCancel == Init /\ [][NextRWCancel]_vars

MaxDeficit == 1       \* how far below zero the readers counter is followed

\* release_read() is cancelled at its await: the DECR has run on the
\* server or it has not, the line that clears the flag is skipped, and
\* the caller catches the error and goes on using the handle.
RWReleaseReadCancel(h) ==
    /\ rwpc[h] = "rel_read"
    /\ IntValue(readersKey) + MaxDeficit > 0
    /\ \E ran \in BOOLEAN :
          readersKey' = IF ran THEN Decr(readersKey) ELSE readersKey
    /\ rwpc' = [rwpc EXCEPT ![h] = "idle"]
    /\ UNCHANGED <<writeKey, is_reader, is_writer, rdAcq, rdRel, wrCalls,
                   wrelRet>>
    /\ RWFrame

\* Callers that pair their calls, and whose release_read() can be
\* cancelled.
NextRWReadCancel ==
    \/ NextRWWB
    \/ \E h \in RWHandles : RWReleaseReadCancel(h)

SpecRWReadCancel == Init /\ [][NextRWReadCancel]_vars

\* The task is cancelled inside acquire(): at the await of the store call,
\* which the server has run or has not, or at the await of the sleep.  The
\* lines after the await are skipped and the task ends.
LockAcquireCancel(h) ==
    /\ lpc[h] \in {"acquiring", "sleeping"}
    /\ \E ran \in BOOLEAN :
          lockKey' = IF ran /\ lpc[h] = "acquiring"
                       THEN SetNX(lockKey, Token(h)).key
                       ELSE lockKey
    /\ lpc' = [lpc EXCEPT ![h] = "cancelled_acq"]
    /\ UNCHANGED <<lheld, lrounds, lrelRet>>
    /\ LockFrame

\* The same inside acquire_read() and acquire_write(): the flag is not set.
RWAcquireCancel(h) ==
    /\ rwpc[h] \in {"acq_read", "sleep_read", "acq_write", "sleep_write"}
    /\ \E ran \in BOOLEAN :
          /\ readersKey' = IF ran /\ rwpc[h] = "acq_read"
                              THEN LuaAcquireRead(writeKey, readersKey).readers
                              ELSE readersKey
          /\ writeKey' = IF ran /\ rwpc[h] = "acq_write"
                            THEN LuaAcquireWrite(writeKey, readersKey,
                                                 Token(h)).write
                            ELSE writeKey
    /\ rwpc' = [rwpc EXCEPT ![h] = "cancelled_acq"]
    /\ UNCHANGED <<is_reader, is_writer, rdAcq, rdRel, wrCalls, wrelRet>>
    /\ RWFrame

\* The same inside RedisSemaphore.acquire().
SemAcquireCancel(h) ==
    /\ spc[h] \in {"acquiring", "sleeping"}
    /\ \E ran \in BOOLEAN :
          permits' = IF ran /\ spc[h] = "acquiring"
                       THEN LuaSemAcquire(permits, sclock, Limit(h)).list
                       ELSE permits
    /\ spc' = [spc EXCEPT ![h] = "cancelled_acq"]
    /\ UNCHANGED <<sclock, sheld, scalls, sval, scan>>
    /\ SemFrame

\* Scoped use of one primitive by tasks that can be cancelled while they
\* wait in __aenter__.
NextAcquireCancel ==
    \/ NextScoped
    \/ \E h \in LockHandles : cm = "lock" /\ LockAcquireCancel(h)
    \/ \E h \in RWHandles : cm = "rwlock" /\ RWAcquireCancel(h)
    \/ \E h \in SemHandles : cm = "semaphore" /\ SemAcquireCancel(h)

SpecAcquireCancel == InitScoped /\ [][NextAcquireCancel]_vars

\* Readers that acquire and release read mode for ever, one writer (the
\* handle StarvedWriter) that reads a few times and then calls
\* acquire_write() once, and a scheduler that lets the writer call and wake
\* only while the readers counter is positive and no release is running,
\* and lets a reader call release_read() only while no other release is
\* running and the writer is not about to make an attempt.
StarvedWriter == CHOOSE h \in RWHandles : TRUE

RWAcquireReadCallLoop(h) ==
    /\ h # StarvedWriter
    /\ RWFree(h)
    /\ ~is_reader[h] /\ ~is_writer[h]
    /\ rwpc' = [rwpc EXCEPT ![h] = "acq_read"]
    /\ UNCHANGED <<writeKey, readersKey, is_reader, is_writer, rdAcq, rdRel,
                   wrCalls, wrelRet>>
    /\ RWFrame

ReadersHold ==
    /\ IntValue(readersKey) > 0
    /\ \A g \in RWHandles : rwpc[g] # "rel_read"

WriterAsleep == \A g \in RWHandles : rwpc[g] # "acq_write"

StarveWriterReadCall(h) ==
    /\ h = StarvedWriter
    /\ wrCalls = 0
    /\ RWAcquireReadCallWB(h)

StarveWriteCall(h) ==
    /\ h = StarvedWriter
    /\ wrCalls = 0
    /\ ReadersHold
    /\ RWAcquireWriteCallWB(h)

StarveWriteWake(h) == ReadersHold /\ RWAcquireWriteWake(h)

StarveReleaseReadCall(h) ==
    /\ WriterAsleep
    /\ \A g \in RWHandles : rwpc[g] # "rel_read"
    /\ RWReleaseReadCallWB(h)

NextRWStarve ==
    \E h \in RWHandles :
        \/ RWAcquireReadCallLoop(h)
        \/ StarveWriterReadCall(h)
        \/ RWAcquireReadTry(h)
        \/ StarveReleaseReadCall(h)
        \/ RWReleaseReadDecr(h)
        \/ StarveWriteCall(h)
        \/ RWAcquireWriteTry(h)
        \/ StarveWriteWake(h)

FairRWStarve ==
    \A h \in RWHandles :
        /\ WF_vars(RWAcquireReadCallLoop(h))
        /\ WF_vars(RWAcquireReadTry(h))
        /\ SF_vars(StarveReleaseReadCall(h))
        /\ WF_vars(RWReleaseReadDecr(h))
        /\ SF_vars(StarveWriteCall(h))
        /\ WF_vars(RWAcquireWriteTry(h))
        /\ SF_vars(StarveWriteWake(h))

SpecRWStarve == Init /\ [][NextRWStarve]_vars /\ FairRWStarve

(* ------------------------------- claims ------------------------------- *)
LockHolders == {h \in LockHandles : lheld[h]}

LockPending(h) == lpc[h] \in {"acquiring", "sleeping"}

\* C1: at most one RedisLock handle has returned from acquire() without
\* having released since, and a SET NX attempt succeeds exactly when the
\* lock is free: the winner finds no key and no other holder, and an
\* attempt made while the key exists is denied.
C1_AtMostOneHolder == Cardinality(LockHolders) <= 1

C1_OneWinner ==
    \A h \in LockHandles :
        (lpc[h] = "acquiring" /\ lpc'[h] # "acquiring") =>
            /\ (lpc'[h] = "idle") <=> (lockKey = Nil)
            /\ (lpc'[h] = "idle") =>
                  lockKey' = Token(h) /\ LockHolders' = {h}
            /\ (lpc'[h] = "sleeping") => lockKey' = lockKey

C1_MutualExclusion == [](C1_AtMostOneHolder) /\ [][C1_OneWinner]_vars

\* C1 witness: one handle holds the lock and two others raced and lost.
C1_Witness ==
    /\ Cardinality(LockHolders) = 1
    /\ Cardinality({h \in LockHandles : lpc[h] = "sleeping" /\ ~lheld[h]}) >= 2

\* C2: a release by handle h deletes the lock key when its value is h's
\* token, and leaves the key and its value unchanged when the key is absent
\* or holds another handle's token.
C2_ReleaseStep ==
    \A h \in LockHandles :
        (lpc[h] = "releasing" /\ lpc'[h] = "idle") =>
            /\ (lockKey = Token(h)) => lockKey' = Nil
            /\ (lockKey # Token(h)) => lockKey' = lockKey

C2_TokenSafety == [][C2_ReleaseStep]_vars

\* C2 witness: a handle that acquired and released earlier released again
\* after another handle took the lock; the script returned 0 and the other
\* handle's key is still there.
C2_Witness ==
    \E h \in LockHandles, g \in LockHandles :
        /\ h # g
        /\ lrounds[h] >= 1 /\ lrelRet[h] = 0 /\ lpc[h] = "idle"
        /\ lheld[g] /\ lockKey = Token(g)

\* C8: the lock key exists iff some handle holds the lock, and its value
\* is then that handle's token.
C8_LockRecord ==
    /\ (lockKey # Nil) <=> (LockHolders # {})
    /\ \A h \in LockHolders : lockKey = Token(h)

\* C8 witness: the key holds the holder's token after a previous holder
\* released and while another handle is being denied.
C8_Witness ==
    \E h \in LockHandles, g \in LockHandles, k \in LockHandles :
        /\ h # g /\ k # g
        /\ lheld[g] /\ lockKey = Token(g)
        /\ lrelRet[h] = 1 /\ ~lheld[h]
        /\ lpc[k] = "sleeping"

\* C9: a handle's acquire() returns only when no other handle holds the
\* lock, and once a holder calls release() while another handle's acquire()
\* is pending, that acquire() eventually returns.
C9_ReturnsOnlyWhenFree ==
    \A h \in LockHandles :
        (~lheld[h] /\ lheld'[h]) => \A g \in LockHandles \ {h} : ~lheld[g]

C9_HandOff ==
    /\ [][C9_ReturnsOnlyWhenFree]_vars
    /\ \A h \in LockHandles, g \in LockHandles :
          (h # g /\ lheld[h] /\ lpc[h] = "releasing" /\ LockPending(g))
              ~> lheld[g]

\* C9 witness: the holder has called release() while a second handle that
\* was denied is asleep in its poll loop.
C9_Witness ==
    \E h \in LockHandles, g \in LockHandles :
        /\ h # g
        /\ lheld[h] /\ lpc[h] = "releasing" /\ lockKey = Token(h)
        /\ lpc[g] = "sleeping" /\ ~lheld[g]

\* C3: the write key never exists while the readers counter is above zero.
C3_RWExclusive == ~(writeKey # Nil /\ IntValue(readersKey) > 0)

\* C3 witness: a writer holds the lock after readers came and went, and a
\* reader is being denied.
C3_Witness ==
    /\ writeKey # Nil
    /\ \E h \in RWHandles : is_writer[h] /\ writeKey = Token(h)
    /\ \E h \in RWHandles : rdRel[h] > 0
    /\ \E h \in RWHandles : rwpc[h] = "sleep_read"

\* C10: an acquire_read attempt made while the write key is absent succeeds
\* and adds one to the readers counter, however many readers hold, and
\* when the handles that acquired read did so once each and no handle has
\* released, the readers counter equals their number.
C10_ReadAttempt ==
    \A h \in RWHandles :
        (rwpc[h] = "acq_read" /\ rwpc'[h] # "acq_read" /\ writeKey = Nil) =>
            /\ rwpc'[h] = "idle"
            /\ is_reader'[h]
            /\ IntValue(readersKey') = IntValue(readersKey) + 1

C10_CountIsN ==
    (\A h \in RWHandles : rdRel[h] = 0 /\ rdAcq[h] <= 1) =>
        IntValue(readersKey) = Cardinality({h \in RWHandles : rdAcq[h] = 1})

C10_ReadersShare == [](C10_CountIsN) /\ [][C10_ReadAttempt]_vars

\* C10 witness: every handle holds a read slot, none has released, and the
\* counter equals the number of handles.
C10_Witness ==
    /\ \A h \in RWHandles : is_reader[h] /\ rdAcq[h] = 1 /\ rdRel[h] = 0
    /\ readersKey = <<NumRWHandles>>
    /\ writeKey = Nil

\* C4: the permit list is never longer than the limit in the state right
\* after a successful acquire (nor in any other state).
C4_AfterAcquire ==
    \A h \in SemHandles :
        (spc[h] = "acquiring" /\ spc'[h] = "idle") =>
            /\ Len(permits') = Len(permits) + 1
            /\ Len(permits') <= Limit(h)

C4_SemaphoreBound ==
    /\ [](Len(permits) <= SemLimit)
    /\ [][C4_AfterAcquire]_vars

\* C4 witness: the list is full, the last permit was granted after time
\* had passed, and a further handle is being denied.
C4_Witness ==
    /\ Len(permits) = SemLimit
    /\ permits[1] > 0
    /\ \E h \in SemHandles : spc[h] = "sleeping"

Min(a, b) == IF a <= b THEN a ELSE b

\* C5: while the counter key has not expired, the acquire() that makes the
\* Nth increment of the window answers True iff N <= rate_limit, so
\* min(N, rate_limit) of the N answers are True.
C5_NthAnswer ==
    \A c \in LimCallers :
        (cpc[c] = "exec" /\ cpc'[c] = "unlocking") =>
            /\ (callowed'[c] = 1) <=> (winIncr' <= RateLimit)
            /\ (callowed'[c] = 0) <=> (winIncr' > RateLimit)

C5_Admission ==
    /\ [](winAllowed = Min(winIncr, RateLimit))
    /\ [][C5_NthAnswer]_vars

\* C5 witness: in one window, more than rate_limit increments were made by
\* two callers, the last one was denied and rate_limit were allowed.
C5_Witness ==
    /\ winIncr > RateLimit
    /\ winAllowed = RateLimit
    /\ ctr > 0
    /\ \E c \in LimCallers, d \in LimCallers :
          c # d /\ callowed[c] = 0 /\ callowed[d] = 1

\* C6: the counter is back at zero no later than time_period after the
\* first increment of its window, whatever acquire() calls follow.
C6_WindowReset == (ctr > 0) => (winAge < TimePeriod)

\* C7: a caller that is inside __aenter__ eventually enters the block.
C7_EnterProgress ==
    \A c \in LimCallers :
        (cscoped[c] /\ cpc[c] \notin {"idle", "in_block"})
            ~> (cpc[c] = "in_block")

ReadPending(h) == rwpc[h] \in {"acq_read", "sleep_read"}

WritePending(h) == rwpc[h] \in {"acq_write", "sleep_write"}

\* C11: while the write key is present, an acquire_read attempt fails,
\* no handle becomes a reader and no step increments the readers counter;
\* once the writer has called release_write while an acquire_read is
\* pending, that acquire_read eventually succeeds.
C11_BlockedWhileWritten ==
    (writeKey # Nil) =>
        /\ IntValue(readersKey') <= IntValue(readersKey)
        /\ \A h \in RWHandles :
              /\ is_reader'[h] => is_reader[h]
              /\ (rwpc[h] = "acq_read" /\ rwpc'[h] # "acq_read") =>
                    (rwpc'[h] = "sleep_read" /\ readersKey' = readersKey)

C11_WriterBlocksReaders ==
    /\ [][C11_BlockedWhileWritten]_vars
    /\ \A h \in RWHandles :
          (/\ ReadPending(h)
           /\ \E g \in RWHandles \ {h} : is_writer[g] /\ rwpc[g] = "rel_write")
              ~> is_reader[h]

\* C11 witness: the writer has called release_write while another handle's
\* acquire_read, denied once, is asleep in its poll loop.
C11_Witness ==
    \E h \in RWHandles, g \in RWHandles :
        /\ h # g
        /\ rwpc[h] = "sleep_read" /\ ~is_reader[h]
        /\ is_writer[g] /\ rwpc[g] = "rel_write" /\ writeKey = Token(g)
        /\ IntValue(readersKey) = 0

\* C12: while the readers counter is above zero, an acquire_write attempt
\* fails, no handle becomes the writer and the write key is not set; once
\* the counter is zero while an acquire_write is pending, that
\* acquire_write eventually succeeds with the write key set to its token.
C12_BlockedWhileRead ==
    (IntValue(readersKey) > 0) =>
        /\ writeKey' = writeKey
        /\ \A h \in RWHandles :
              /\ is_writer'[h] => is_writer[h]
              /\ (rwpc[h] = "acq_write" /\ rwpc'[h] # "acq_write") =>
                    rwpc'[h] = "sleep_write"

C12_ReadersBlockWriter ==
    /\ [][C12_BlockedWhileRead]_vars
    /\ \A h \in RWHandles :
          (WritePending(h) /\ readersKey = <<0>>)
              ~> (is_writer[h] /\ writeKey = Token(h))

\* C12 witness: the last reader has released, the counter is back at zero,
\* and another handle's acquire_write, denied once, is asleep in its poll
\* loop.
C12_Witness ==
    \E h \in RWHandles, g \in RWHandles :
        /\ h # g
        /\ rwpc[h] = "sleep_write" /\ ~is_writer[h]
        /\ rdRel[g] > 0 /\ ~is_reader[g]
        /\ readersKey = <<0>> /\ writeKey = Nil

\* C13: at most one handle has its write flag set, and the write key then
\* holds exactly that handle's token.
C13_WriterExclusion ==
    /\ Cardinality({h \in RWHandles : is_writer[h]}) <= 1
    /\ \A h \in RWHandles : is_writer[h] => writeKey = Token(h)

\* C13 witness: one handle is the writer while a second handle's
\* acquire_write has been denied and sleeps.
C13_Witness ==
    \E h \in RWHandles, g \in RWHandles :
        /\ h # g
        /\ is_writer[h] /\ writeKey = Token(h)
        /\ rwpc[g] = "sleep_write" /\ ~is_writer[g]

\* C14: release_read on a handle whose read flag is not set, and
\* release_write on a handle whose write flag is not set, raise
\* RuntimeError and leave the readers counter and the write key unchanged;
\* the store commands of a release run only when the flag is set.
C14_ReleaseCall ==
    \A h \in RWHandles :
        /\ (RWFree(h) /\ rwpc'[h] = "rel_read") => is_reader[h]
        /\ (RWFree(h) /\ rwpc'[h] = "rel_write") => is_writer[h]
        /\ (rwpc[h] # "raised_read" /\ rwpc'[h] = "raised_read") =>
              (~is_reader[h] /\ readersKey' = readersKey
                             /\ writeKey' = writeKey)
        /\ (rwpc[h] # "raised_write" /\ rwpc'[h] = "raised_write") =>
              (~is_writer[h] /\ readersKey' = readersKey
                             /\ writeKey' = writeKey)

C14_Decrement ==
    (IntValue(readersKey') < IntValue(readersKey)) =>
        \E h \in RWHandles : rwpc[h] = "rel_read" /\ is_reader[h]

C14_NotHeldRaises == [][C14_ReleaseCall /\ C14_Decrement]_vars

\* C14 witness: one handle's release_read raised and the other handle's
\* release_write raised, while the other handle holds a read slot that the
\* counter still shows.
C14_Witness ==
    \E h \in RWHandles, g \in RWHandles :
        /\ h # g
        /\ rwpc[h] = "raised_read" /\ ~is_reader[h]
        /\ rwpc[g] = "raised_write" /\ is_reader[g]
        /\ readersKey = <<1>> /\ writeKey = Nil

\* C15 as stated: a release() by a handle that does not hold the lock (key
\* absent or holding another token) ends with an error raised to the
\* caller.
C15_NotHolderStep(h) ==
    lpc[h] = "releasing" /\ lpc'[h] # "releasing" /\ lockKey # Token(h)

C15_NotHeldReported ==
    [][\A h \in LockHandles : C15_NotHolderStep(h) => lpc'[h] = "raised"]_vars

\* C15 as the code has it: a release() by a handle that does not hold the
\* lock returns normally; the script returned 0, which release() drops,
\* and the key is unchanged.
C15_NotHeldIgnored ==
    [][\A h \in LockHandles :
          C15_NotHolderStep(h) =>
              (lpc'[h] = "idle" /\ lrelRet'[h] = 0 /\ lockKey' = lockKey)]_vars

\* C15 witness: a handle that never called acquire() has returned from
\* release() while another handle holds the lock.
C15_Witness ==
    \E h \in LockHandles, g \in LockHandles :
        /\ h # g
        /\ lrounds[h] = 0 /\ lrelRet[h] = 0 /\ lpc[h] = "idle"
        /\ lheld[g] /\ lockKey = Token(g)

\* C16: the script of release_write by h deletes the write key when the
\* key holds h's token and leaves it in place when it holds another
\* token, also when the call is cancelled; no other step removes or
\* replaces a write key.
C16_ReleaseWriteStep ==
    \A h \in RWHandles :
        (rwpc[h] = "rel_write" /\ is_writer[h] /\ ~is_writer'[h]) =>
            /\ (writeKey = Token(h)) => writeKey' = Nil
            /\ (writeKey # Token(h)) => writeKey' = writeKey

C16_OnlyOwnerDeletes ==
    (writeKey # Nil /\ writeKey' # writeKey) =>
        /\ writeKey' = Nil
        /\ \E h \in RWHandles : rwpc[h] = "rel_write" /\ writeKey = Token(h)

C16_WriteTokenSafety == [][C16_ReleaseWriteStep /\ C16_OnlyOwnerDeletes]_vars

\* C16 witness: a release_write script found another handle's token in
\* the write key and returned 0; that handle is still the writer and its
\* key is still there.
C16_Witness ==
    \E h \in RWHandles, g \in RWHandles :
        /\ h # g
        /\ wrelRet = 0 /\ ~is_writer[h] /\ rwpc[h] = "idle"
        /\ is_writer[g] /\ writeKey = Token(g)

\* C18: when the task holding a read slot or the write slot through h has
\* been cancelled before calling release, the store holds nothing of h:
\* the write key is not h's token and every increment h made of the
\* readers counter has been taken back.
C18_CancelCleansUp ==
    \A h \in RWHandles :
        (rwpc[h] = "cancelled") =>
            (writeKey # Token(h) /\ rdAcq[h] = rdRel[h])

SemHolders == {h \in SemHandles : sheld[h] > 0}

SemPending(h) == spc[h] \in {"acquiring", "sleeping"}

RECURSIVE SumHeld(_)
SumHeld(S) ==
    IF S = {} THEN 0
    ELSE LET h == CHOOSE x \in S : TRUE IN sheld[h] + SumHeld(S \ {h})

\* C19: an acquire attempt returns at once while fewer than the limit of
\* permits are out and is made to wait when the limit is reached, so of
\* more handles than the limit exactly limit-many hold; once a holder has
\* called release() while another handle's acquire() is pending, that
\* acquire() eventually returns.
C19_Attempt ==
    \A h \in SemHandles :
        (spc[h] = "acquiring" /\ spc'[h] # "acquiring") =>
            /\ (Cardinality(SemHolders) < Limit(h)) =>
                  (spc'[h] = "idle" /\ sheld'[h] = sheld[h] + 1)
            /\ (Cardinality(SemHolders) >= Limit(h)) =>
                  (spc'[h] = "sleeping" /\ sheld'[h] = sheld[h])

C19_HandOff ==
    /\ [](Cardinality(SemHolders) <= SemLimit)
    /\ [][C19_Attempt]_vars
    /\ \A h \in SemHandles :
          (/\ SemPending(h)
           /\ \E g \in SemHandles \ {h} : sheld[g] > 0 /\ spc[g] = "releasing")
              ~> (sheld[h] > 0)

\* C19 witness: limit-many handles hold a permit, one more handle was
\* denied and sleeps, and one of the holders has called release().
C19_Witness ==
    /\ Cardinality(SemHolders) = SemLimit
    /\ Len(permits) = SemLimit
    /\ \E h \in SemHandles, g \in SemHandles :
          /\ h # g
          /\ spc[h] = "sleeping" /\ sheld[h] = 0
          /\ sheld[g] > 0 /\ spc[g] = "releasing"

\* C20: when every release follows an acquire of the same handle, the
\* list length, which value() returns, is the number of acquires that
\* succeeded minus the number of releases performed, and value() returns
\* 0 when all permits have been released.
C20_ValueStep ==
    \A h \in SemHandles :
        (spc[h] = "value" /\ spc'[h] = "idle") =>
            /\ sval' = SumHeld(SemHandles)
            /\ (SemHolders = {}) => sval' = 0

C20_Value ==
    /\ [](Len(permits) = SumHeld(SemHandles))
    /\ [][C20_ValueStep]_vars

\* C20 witness: value() returned 1 while one permit is out, after at least
\* three acquire() calls were made and the other permits were released.
C20_Witness ==
    /\ sval = 1
    /\ Len(permits) = 1
    /\ scalls >= 3
    /\ \E h \in SemHandles : sheld[h] = 1 /\ spc[h] = "idle"
    /\ \A h \in SemHandles : spc[h] \in {"idle", "sleeping"}

\* The task of h has left its `async with` statement: the body is over
\* and __aexit__ has returned.
CtxDone(h) ==
    /\ body[h] \in ExitPaths
    /\ (cm = "lock") => lpc[h] = "idle"
    /\ (cm = "semaphore") => spc[h] = "idle"
    /\ (cm = "rwlock") => rwpc[h] = "idle"

\* C17: leaving the body of `async with`, normally or by an exception,
\* runs the release of the primitive that was entered; when the statement
\* is left the lock key or write key does not hold the handle's token and
\* its permit or read slot is given back, so that the permit list and the
\* readers counter count the handles inside a body, and when no handle is
\* inside a statement the store is as it was before the first entry.
C17_ExitReleases ==
    \A h \in CtxHandles :
        (body[h] = "in" /\ body'[h] \in ExitPaths) =>
            /\ (cm = "lock") => lpc'[h] = "releasing"
            /\ (cm = "semaphore") => spc'[h] = "releasing"
            /\ (cm = "rwlock" /\ is_reader[h]) => rwpc'[h] = "rel_read"
            /\ (cm = "rwlock" /\ is_writer[h]) => rwpc'[h] = "rel_write"

C17_LeftClean ==
    /\ \A h \in LockHandles :
          (cm = "lock" /\ CtxDone(h)) => (lockKey # Token(h) /\ ~lheld[h])
    /\ \A h \in SemHandles :
          (cm = "semaphore" /\ CtxDone(h)) => sheld[h] = 0
    /\ \A h \in RWHandles :
          (cm = "rwlock" /\ CtxDone(h)) =>
              (writeKey # Token(h) /\ ~is_writer[h] /\ ~is_reader[h])
    /\ Len(permits) = Cardinality(SemHolders)
    /\ IntValue(readersKey) = Cardinality({h \in RWHandles : is_reader[h]})
    /\ (\A h \in CtxHandles : body[h] = "out" \/ CtxDone(h)) =>
          /\ lockKey = Nil /\ writeKey = Nil
          /\ IntValue(readersKey) = 0 /\ permits = <<>>

C17_ScopedRelease == [](C17_LeftClean) /\ [][C17_ExitReleases]_vars

\* C17 witness: a reader whose body raised has left its statement, its
\* read slot is given back, and another handle is inside a write body that
\* it entered afterwards.
C17_Witness ==
    /\ cm = "rwlock"
    /\ \E h \in RWHandles, g \in RWHandles :
          /\ h # g
          /\ body[h] = "exc" /\ rwpc[h] = "idle" /\ rdRel[h] > 0
          /\ body[g] = "in" /\ is_writer[g] /\ writeKey = Token(g)
          /\ readersKey = <<0>>

\* C21: can_acquire returns True iff the permit list is shorter than the
\* handle's limit when its script runs, and leaves the permit list as it
\* is.
C21_CanAcquireStep ==
    \A h \in SemHandles :
        (spc[h] = "can_acquire" /\ spc'[h] = "idle") =>
            /\ permits' = permits
            /\ scan' \in {0, 1}
            /\ (scan' = 1) <=> (Len(permits) < Limit(h))

C21_CanAcquirePure == [][C21_CanAcquireStep]_vars

\* C21 witness: with limit-many permits out, can_acquire has answered
\* False and the list is as long as before.
C21_Witness ==
    /\ scan = 0
    /\ Len(permits) = SemLimit
    /\ scalls = SemLimit
    /\ \A h \in SemHandles : spc[h] = "idle"

\* C22: every acquire() of the limiter, allowed or denied, adds exactly
\* one to the counter (counters from CountCap on are not told apart); the
\* counter changes in no other limiter step, and it goes down only to
\* zero, when the store expires the key at the end of its time to live.
C22_CounterStep ==
    /\ \A c \in LimCallers :
          (cpc[c] = "exec" /\ cpc'[c] = "unlocking") =>
              /\ callowed'[c] \in {0, 1}
              /\ ctr' = Bump(ctr, CountCap)
              /\ (ctr < CountCap) => ctr' = ctr + 1
    /\ (ctr' > ctr) => \E c \in LimCallers : cpc[c] = "exec" /\ cpc'[c] # "exec"
    /\ (ctr' < ctr) => (ctr' = 0 /\ ctrTTL = 1 /\ cpc' = cpc)

C22_NoUnIncrement == [][C22_CounterStep]_vars

\* C22 witness: a denied acquire() has returned and the counter stands
\* one above rate_limit.
C22_Witness ==
    /\ ctr = RateLimit + 1
    /\ \E c \in LimCallers :
          callowed[c] = 0 /\ cpc[c] = "idle" /\ ~cscoped[c]

\* Every acquire_read and acquire_write that returned has been followed
\* by its release: no flag is set and each handle decremented as often as
\* it incremented.
RWAllReleased ==
    \A h \in RWHandles :
        ~is_reader[h] /\ ~is_writer[h] /\ rdAcq[h] = rdRel[h]

\* C23: whenever every acquire has been followed by its release, so that
\* no handle has its read or write flag set, the write key is absent and
\* the readers counter is absent or zero.
C23_CleanQuiescence ==
    RWAllReleased => (writeKey = Nil /\ readersKey \in {<<>>, <<0>>})

\* C23 witness: after read rounds and a write round every handle is back
\* between calls with no flag set; the readers key exists and holds 0.
C23_Witness ==
    /\ RWAllReleased
    /\ \A h \in RWHandles : rwpc[h] = "idle" /\ rdRel[h] > 0
    /\ wrelRet = 1
    /\ writeKey = Nil /\ readersKey = <<0>>

\* No task is inside a call or between an acquire and its release.
RWQuiescent ==
    \A h \in RWHandles :
        rwpc[h] = "idle" /\ ~is_reader[h] /\ ~is_writer[h]

\* C24: with finitely many rounds per task and a fair event loop, every
\* acquire_read and every acquire_write eventually returns, and from some
\* point on every task is done.
C24_Progress ==
    /\ \A h \in RWHandles : ReadPending(h) ~> is_reader[h]
    /\ \A h \in RWHandles : WritePending(h) ~> is_writer[h]
    /\ <>[]RWQuiescent

\* C24 witness: after a write round was completed, one handle holds a read
\* slot while another handle's acquire_write waits in its poll loop.
C24_Witness ==
    \E h \in RWHandles, g \in RWHandles :
        /\ h # g
        /\ wrelRet = 1
        /\ is_reader[h] /\ rwpc[h] = "idle"
        /\ rwpc[g] = "sleep_write"


Leaked(h) == rdAcq[h] - rdRel[h] - (IF is_reader[h] THEN 1 ELSE 0)

RECURSIVE SumLeaked(_)
SumLeaked(S) ==
    IF S = {} THEN 0
    ELSE LET h == CHOOSE x \in S : TRUE IN Leaked(h) + SumLeaked(S \ {h})

C26_Step ==
    \A h \in RWHandles :
        /\ (rwpc[h] = "rel_read" /\ rwpc'[h] = "idle"
                /\ rdAcq[h] - rdRel[h] = 2) =>
              /\ ~is_reader'[h]
              /\ IntValue(readersKey') = IntValue(readersKey) - 1
              /\ Leaked(h)' = 1
        /\ (rwpc[h] = "idle" /\ Leaked(h) > 0 /\ ~is_reader[h]
                /\ rwpc'[h] \in {"rel_read", "raised_read"}) =>
              /\ rwpc'[h] = "raised_read"
              /\ readersKey' = readersKey
        /\ Leaked(h)' >= Leaked(h)

\* C26: one RedisRWLock handle used by two callers loses a slot.  After two
\* acquire_read() through the same handle the first release_read()
\* decrements the counter once and clears the flag, the second is rejected
\* and changes nothing, no later step gives the slot back, and the readers
\* counter stays at least the number of slots lost in this way.
C26_SharedHandle ==
    /\ [](IntValue(readersKey) >= SumLeaked(RWHandles))
    /\ [](\A h \in RWHandles : Leaked(h) >= 0)
    /\ [][C26_Step]_vars

\* Both callers of handle h acquired, the first released, the second was
\* rejected; nobody else uses the lock and the counter is still 1.
C26_Witness ==
    \E h \in RWHandles :
        /\ rwpc[h] = "raised_read"
        /\ rdAcq[h] = 2 /\ rdRel[h] = 1
        /\ ~is_reader[h]
        /\ \A g \in RWHandles \ {h} : rdAcq[g] = 0 /\ rwpc[g] = "idle"
        /\ writeKey = Nil
        /\ readersKey = <<1>>

C27_WriteForms == {"lock('w')", "lock"}

C27_ReadForms == {"lock('r')", "read_lock()"}

C27_Inside ==
    \A h \in RWHandles :
        (cm = "rwlock" /\ body[h] = "in" /\ rwpc[h] = "idle") =>
            /\ entry[h] \in C27_WriteForms =>
                  (writeKey = Token(h) /\ is_writer[h] /\ ~is_reader[h])
            /\ entry[h] \in C27_ReadForms =>
                  (IntValue(readersKey) >= 1 /\ is_reader[h] /\ ~is_writer[h])

C27_After ==
    \A h \in RWHandles :
        (cm = "rwlock" /\ CtxDone(h)) =>
            /\ entry[h] \in C27_WriteForms =>
                  /\ writeKey # Token(h)
                  /\ (\A g \in RWHandles : ~is_writer[g]) => writeKey = Nil
            /\ entry[h] \in C27_ReadForms =>
                  IntValue(readersKey) =
                      Cardinality({g \in RWHandles \ {h} : is_reader[g]})

C27_Step ==
    \A h \in RWHandles :
        (cm = "rwlock" /\ (rwpc'[h] # rwpc[h] \/ body'[h] # body[h])) =>
            /\ entry'[h] \in C27_WriteForms => readersKey' = readersKey
            /\ entry'[h] \in C27_ReadForms =>
                  /\ writeKey' = writeKey
                  /\ IntValue(readersKey') - IntValue(readersKey) =
                        (IF is_reader'[h] /\ ~is_reader[h] THEN 1
                         ELSE IF is_reader[h] /\ ~is_reader'[h] THEN -1
                         ELSE 0)

\* C27: `async with lock('w')` and the deprecated `async with lock` take
\* write mode: inside the body the write key is the handle's token, no step
\* of the statement changes the readers counter, and after the statement
\* the write key is not the handle's token (absent when no other handle
\* writes).  `async with await lock('r')` and `await lock.read_lock()` take
\* read mode: inside the body the readers counter is at least 1, no step
\* of the statement changes the write key, entering adds exactly one to
\* the counter and leaving takes exactly one away, so that afterwards the
\* counter counts the other readers only.
C27_ModeEntryPoints ==
    /\ [](C27_Inside)
    /\ [](C27_After)
    /\ [][C27_Step]_vars

\* One handle is inside a body entered with the deprecated form and holds
\* the write key; another has left a body entered with lock('r') and has
\* given its slot back.
C27_Witness ==
    /\ cm = "rwlock"
    /\ \E h, g \in RWHandles :
          /\ entry[h] = "lock" /\ body[h] = "in" /\ rwpc[h] = "idle"
          /\ writeKey = Token(h)
          /\ entry[g] = "lock('r')" /\ CtxDone(g) /\ rdRel[g] > 0
          /\ IntValue(readersKey) = 0

\* The items put and not yet returned by a get(), oldest first.
QPending == SubSeq(qhist, qtaken + 1, Len(qhist))

C28_Stored ==
    /\ Len(qlist) = Len(qhist) - qtaken
    /\ \A i \in 1..Len(qlist) : Decode(qlist[i]) = QPending[i]

C28_Step ==
    /\ qop' = "get" =>
          /\ qret' = (IF QPending = <<>> THEN <<>> ELSE <<Head(QPending)>>)
          /\ QPending' = (IF QPending = <<>> THEN <<>> ELSE Tail(QPending))
    /\ qop' = "peek" =>
          /\ qret' = (IF QPending = <<>> THEN <<>> ELSE <<Head(QPending)>>)
          /\ qlist' = qlist /\ QPending' = QPending
    /\ qop' = "size" =>
          /\ qsize' = Len(qhist) - qtaken
          /\ qlist' = qlist /\ QPending' = QPending

\* C28: RedisQueue is first in, first out.  get() returns the oldest item
\* put and not yet returned by a get(), and removes it, or returns None when
\* there is none; peek() returns the same item and removes nothing; size()
\* returns the number of put() calls less the number of get() calls that
\* returned an item; and the store's list holds exactly the pending items,
\* in order.
C28_QueueFIFO == [](C28_Stored) /\ [][C28_Step]_vars

\* Three items were put, the empty string second; two get() calls returned
\* the first two in order, the last one returning the empty string.
C28_Witness ==
    /\ impl = "structures"
    /\ qhist = <<"job1", "", "job2">>
    /\ qtaken = 2
    /\ qop = "get" /\ qret = <<"">>
    /\ Len(qlist) = 1

C29_Step ==
    \A c \in DictCallers :
        /\ (dpc[c] = "hset" /\ dpc'[c] = "idle") => dhash = <<>>
        /\ (dpc[c] = "hget" /\ dpc'[c] = "idle") =>
              /\ dhash # <<>>
              /\ dret'[c] = <<Decode(dhash[1])>>
        /\ (dpc[c] # "idle" /\ dpc'[c] = "idle" /\ dhash # <<>>) =>
              dhash' = dhash

C29_SameValue ==
    dwrites = 0 =>
        \A c, e \in DictCallers :
            (dret[c] # <<>> /\ dret[e] # <<>>) => dret[c] = dret[e]

\* C29: setdefault(k, d) never overwrites.  The step at which it takes
\* effect stores d only if k is absent at that step, and otherwise returns
\* the value k has at that step and leaves the mapping as it is; and with
\* no other writer of k, all setdefault calls return the same value.
C29_NeverOverwrites == [](C29_SameValue) /\ [][C29_Step]_vars

C30_DeniedStep ==
    /\ \A h \in LockHandles :
          (lpc[h] = "acquiring" /\ lpc'[h] = "sleeping") =>
              lockKey' = lockKey
    /\ \A h \in RWHandles :
          (rwpc[h] = "acq_read" /\ rwpc'[h] = "sleep_read") =>
              (readersKey' = readersKey /\ writeKey' = writeKey)
    /\ \A h \in RWHandles :
          (rwpc[h] = "acq_write" /\ rwpc'[h] = "sleep_write") =>
              (writeKey' = writeKey /\ readersKey' = readersKey)
    /\ \A h \in SemHandles :
          (spc[h] = "acquiring" /\ spc'[h] = "sleeping") =>
              permits' = permits

\* C30: an attempt that is denied changes nothing in the store.  The step
\* of a poll loop that ends in the sleep leaves the lock key (RedisLock),
\* the readers counter and the write key (acquire_read, acquire_write) and
\* the permit list (RedisSemaphore) exactly as they were.
C30_DeniedNoEffect == [][C30_DeniedStep]_vars

\* A reader sleeps after an attempt denied by a writer that holds the write
\* key; the readers counter has not been created.
C30_Witness ==
    /\ cm = "rwlock"
    /\ \E h, g \in RWHandles :
          /\ rwpc[h] = "sleep_read" /\ ~is_reader[h]
          /\ is_writer[g] /\ writeKey = Token(g)
          /\ readersKey = <<>>

\* C31 as stated: for any calls by any handles, the number of handles that
\* acquired a permit and have not released it never exceeds the limit.
C31_HoldersBound == Cardinality(SemHolders) <= SemLimit

\* Every permit a handle holds is an entry of the list.
C31_Accounted == SumHeld(SemHandles) = Len(permits)

\* release() by a handle that holds nothing takes an entry away.
C31_ForeignPop ==
    \E h \in SemHandles :
        /\ spc[h] = "releasing" /\ spc'[h] = "idle"
        /\ sheld[h] = 0 /\ permits # <<>>

\* C31: the list never holds more than limit entries; while no handle has
\* released a permit it did not hold, every permit held is an entry of the
\* list and the number of handles that hold a permit never exceeds the
\* limit; the only step that breaks this is a release() by a handle that
\* holds nothing.
C31_HoldersBoundPaired ==
    /\ [](Len(permits) <= SemLimit)
    /\ [](C31_Accounted => C31_HoldersBound)
    /\ [][(C31_Accounted /\ ~C31_ForeignPop) => C31_Accounted']_vars

\* limit handles hold a permit each, all accounted for, and a further
\* handle sleeps after a denied attempt.
C31_Witness ==
    /\ C31_Accounted
    /\ Cardinality(SemHolders) = SemLimit
    /\ \E h \in SemHandles : spc[h] = "sleeping" /\ sheld[h] = 0

C32_ReleaseStep ==
    \A h \in SemHandles :
        (spc[h] = "releasing" /\ spc'[h] = "idle") =>
            IF permits = <<>>
              THEN permits' = <<>>
              ELSE /\ Len(permits') = Len(permits) - 1
                   /\ permits' = SubSeq(permits, 1, Len(permits) - 1)

\* C32: release() takes exactly one entry (the oldest) off a non-empty
\* permit list, whichever handle calls it and whether or not that handle
\* holds a permit, and changes nothing on an empty list; the permit count
\* is never below zero.
C32_OwnershipFree == [](Len(permits) >= 0) /\ [][C32_ReleaseStep]_vars

\* A handle that holds nothing has released: two permits are held and the
\* list has one entry.
C32_Witness ==
    /\ SumHeld(SemHandles) = 2
    /\ Len(permits) = 1
    /\ \E h \in SemHandles : sheld[h] = 0 /\ spc[h] = "idle"

\* C33: the readers counter is never negative, also when a release_read()
\* is cancelled at its await and the caller calls release_read() again.
C33_ReadersNonNegative == IntValue(readersKey) >= 0

\* C34: the readers counter equals the number of handles whose read flag
\* is set, also when a handle calls acquire_read() again before it
\* releases.
C34_CounterMatchesFlags ==
    IntValue(readersKey) = Cardinality({h \in RWHandles : is_reader[h]})

\* C35: a task cancelled while it waits inside acquire leaves nothing in
\* the store that its handle does not record: no lock key or write key
\* with the handle's token, no readers increment without a read flag and
\* no permit entry that no handle holds.
C35_CancelLeaksNothing ==
    /\ \A h \in LockHandles :
          lpc[h] = "cancelled_acq" => (lockKey = Token(h) => lheld[h])
    /\ \A h \in RWHandles :
          rwpc[h] = "cancelled_acq" => (writeKey = Token(h) => is_writer[h])
    /\ (\E h \in RWHandles : rwpc[h] = "cancelled_acq") =>
          IntValue(readersKey) =
              Cardinality({h \in RWHandles : is_reader[h]})
    /\ (\E h \in SemHandles : spc[h] = "cancelled_acq") =>
          Len(permits) = SumHeld(SemHandles)

\* The callers whose acquire() is inside `async with self._lock`.
LimInside == {c \in LimCallers : cpc[c] \in {"exec", "unlocking"}}

\* The callers with an acquire() call in progress.
LimInProgress ==
    {c \in LimCallers : cpc[c] \in {"locking", "lock_sleep", "exec", "unlocking"}}

C36_Serialized ==
    /\ Cardinality(LimInside) <= 1
    /\ \A c \in LimInside : limLockKey = Token(c)
    /\ LimInside = {} => limLockKey = Nil
    /\ LimInProgress = {} => limLockKey = Nil

C36_ReturnStep ==
    \A c \in LimCallers :
        (cpc[c] = "unlocking" /\ cpc'[c] # "unlocking") =>
            /\ callowed[c] \in {0, 1}
            /\ limLockKey = Token(c)
            /\ limLockKey' = Nil

\* C36: the increment-and-expire step of a limiter name runs under its
\* internal lock: at most one acquire() is inside the lock at a time and
\* the lock key holds its token; acquire() releases the lock before it
\* returns, whether the answer is True or False; and when no acquire() is
\* in progress the lock key is absent.
C36_LimiterLock == [](C36_Serialized) /\ [][C36_ReturnStep]_vars

\* One caller is about to run the pipeline under the lock while another
\* sleeps in the lock's poll loop, and an earlier acquire() was denied.
C36_Witness ==
    \E c, d \in LimCallers :
        /\ cpc[c] = "exec" /\ limLockKey = Token(c)
        /\ cpc[d] = "lock_sleep"
        /\ ctr > RateLimit

\* C37: the limiter counter never exists without an expiry: in every
\* state another client can observe, the counter key is absent or carries
\* a time to live of at least one tick and at most int(time_period)
\* seconds.
C37_CounterHasExpiry ==
    ctr = 0 \/ ctrTTL \in 1 .. (IntSeconds(TimePeriod) * TicksPerSecond)

\* The counter was incremented a second time and its expiry renewed to
\* the full period.
C37_Witness ==
    /\ ctr >= 2
    /\ ctrTTL = IntSeconds(TimePeriod) * TicksPerSecond
    /\ \E c \in LimCallers : cpc[c] = "unlocking"

\* Handle h holds the lock and is inside a second acquire() on it.
C38_Reacquiring(h) ==
    /\ lheld[h]
    /\ lockKey = Token(h)
    /\ lpc[h] \in {"acquiring", "sleeping"}

C38_Step ==
    \A h \in LockHandles :
        /\ C38_Reacquiring(h) => C38_Reacquiring(h)'
        /\ (lheld[h] /\ lpc[h] = "acquiring" /\ lpc'[h] = "idle") =>
               lockKey = Nil

\* C38: RedisLock is not re-entrant: a second acquire() through a handle
\* that already holds the lock returns only from a state in which the lock
\* key is absent, and since only the handle's own release() removes its
\* key, a caller that acquires twice without releasing stays in the second
\* acquire() forever.
C38_NotReentrant == [][C38_Step]_vars

\* A holder called acquire() again, was refused once and sleeps in the
\* poll loop while the key still holds its own token.
C38_Witness ==
    \E h \in LockHandles :
        /\ C38_Reacquiring(h)
        /\ lpc[h] = "sleeping"
        /\ lrounds[h] = MaxRounds

\* A handle that holds a read slot is used by two tasks at once, as in
\* test_redis_rwlock_read_blocks_write: one task calls acquire_write()
\* and polls, the other calls release_read() through the same handle.
\* The handle's position pairs the two tasks: "upg_try" / "upg_sleep" are
\* the writer's eval and sleep, the suffix "_rel" says the other task is
\* inside release_read(), past the flag check and before the DECR.
UpgradeWriteCall(h) ==
    /\ rwpc[h] = "idle"
    /\ is_reader[h]
    /\ ~is_writer[h]
    /\ wrCalls < MaxWriteCalls
    /\ wrCalls' = wrCalls + 1
    /\ rwpc' = [rwpc EXCEPT ![h] = "upg_try"]
    /\ UNCHANGED <<writeKey, readersKey, is_reader, is_writer, rdAcq, rdRel,
                   wrelRet>>
    /\ RWFrame

UpgradeWriteTry(h) ==
    /\ rwpc[h] \in {"upg_try", "upg_try_rel"}
    /\ LET r == LuaAcquireWrite(writeKey, readersKey, Token(h)) IN
         /\ writeKey' = r.write
         /\ IF r.ret # 0
              THEN /\ is_writer' = [is_writer EXCEPT ![h] = TRUE]
                   /\ rwpc' = [rwpc EXCEPT ![h] =
                                  IF @ = "upg_try" THEN "idle" ELSE "rel_read"]
              ELSE /\ rwpc' = [rwpc EXCEPT ![h] =
                                  IF @ = "upg_try" THEN "upg_sleep"
                                                   ELSE "upg_sleep_rel"]
                   /\ UNCHANGED is_writer
    /\ UNCHANGED <<readersKey, is_reader, rdAcq, rdRel, wrCalls, wrelRet>>
    /\ RWFrame

UpgradeWriteWake(h) ==
    /\ rwpc[h] \in {"upg_sleep", "upg_sleep_rel"}
    /\ rwpc' = [rwpc EXCEPT ![h] =
                   IF @ = "upg_sleep" THEN "upg_try" ELSE "upg_try_rel"]
    /\ UNCHANGED <<writeKey, readersKey, is_reader, is_writer, rdAcq, rdRel,
                   wrCalls, wrelRet>>
    /\ RWFrame

UpgradeReleaseReadCall(h) ==
    /\ rwpc[h] \in {"upg_try", "upg_sleep"}
    /\ is_reader[h]
    /\ rwpc' = [rwpc EXCEPT ![h] =
                   IF @ = "upg_try" THEN "upg_try_rel" ELSE "upg_sleep_rel"]
    /\ UNCHANGED <<writeKey, readersKey, is_reader, is_writer, rdAcq, rdRel,
                   wrCalls, wrelRet>>
    /\ RWFrame

UpgradeReleaseReadDecr(h) ==
    /\ rwpc[h] \in {"upg_try_rel", "upg_sleep_rel"}
    /\ readersKey' = Decr(readersKey)
    /\ is_reader' = [is_reader EXCEPT ![h] = FALSE]
    /\ rdRel' = [rdRel EXCEPT ![h] = IF @ < MaxReadAcq THEN @ + 1 ELSE @]
    /\ rwpc' = [rwpc EXCEPT ![h] =
                   IF @ = "upg_try_rel" THEN "upg_try" ELSE "upg_sleep"]
    /\ UNCHANGED <<writeKey, is_writer, rdAcq, wrCalls, wrelRet>>
    /\ RWFrame

NextRWUpgrade ==
    \/ NextRWWB
    \/ \E h \in RWHandles :
          \/ UpgradeWriteCall(h)
          \/ UpgradeWriteTry(h)
          \/ UpgradeWriteWake(h)
          \/ UpgradeReleaseReadCall(h)
          \/ UpgradeReleaseReadDecr(h)

SpecRWUpgrade == Init /\ [][NextRWUpgrade]_vars

C39_OwnSlotCounted ==
    \A h \in RWHandles : is_reader[h] => IntValue(readersKey) >= 1

C39_Step ==
    \A h \in RWHandles :
        (~is_writer[h] /\ is_writer'[h]) =>
            /\ ~is_reader[h]
            /\ IntValue(readersKey) = 0

\* C39: there is no read-to-write upgrade: while a handle holds a read
\* slot the readers counter includes that slot and is at least one, and an
\* acquire_write() through the handle succeeds only from a state in which
\* the counter is zero and the handle's read slot has been released.
C39_NoUpgrade == [](C39_OwnSlotCounted) /\ [][C39_Step]_vars

\* The writer of a read-holding handle was refused and the read slot was
\* then released through the same handle: the next eval finds the counter
\* at zero and the write key absent.
C39_Witness ==
    \E h \in RWHandles :
        /\ rwpc[h] = "upg_try"
        /\ ~is_reader[h]
        /\ rdRel[h] >= 1
        /\ IntValue(readersKey) = 0
        /\ writeKey = Nil

\* How many times x occurs in the list.
C40_Count(list, x) == Cardinality({i \in DOMAIN list : list[i] = x})

C40_Step ==
    \A c \in ListClients :
        /\ (ipc[c] = "insert_write" /\ ipc'[c] = "idle") =>
              /\ Len(llist') = Len(llist) + 1
              /\ \A x \in ListItems :
                    C40_Count(llist', Serialize(x)) >=
                        C40_Count(llist, Serialize(x))
              /\ llist'[ireq[c].index + 1] = Serialize(ireq[c].value)
        /\ (ipc'[c] = "raised_index" /\ ipc[c] # "raised_index") =>
              llist' = llist

\* C40: insert() preserves concurrent updates: the step that writes an
\* insert(i, v) back leaves in the list every element that was in it just
\* before, adds exactly v, at the requested position, whatever append, pop
\* or insert another client ran in between; an out-of-range index raises
\* IndexError and leaves the list unchanged.
C40_InsertPreserves == [][C40_Step]_vars

=========================================================================
